---- MODULE Spec2Model ----
(***************************************************************************)
(* Model of the MATX text format: TextWriter (textout.py) and TextParser   *)
(* (textin.py).  Text is a sequence of one-character strings.  A Python    *)
(* int is an integer; a Python float is a finite decimal held as a count   *)
(* of 10^-7 units ("ticks"), so that rounding to 6 decimals is visible;    *)
(* IEEE specials (nan, inf, -0.0) are outside the modelled inputs.         *)
(***************************************************************************)
EXTENDS Integers, Sequences, FiniteSets, TLC

VARIABLES
    fp,            \* TextWriter.fp: "None" or "open"
    written,       \* the arguments of fp.write(...) since the file was opened, in order
    fields,        \* TextWriter.fields
    block_name,    \* TextWriter.block_name
    line_count,    \* TextWriter.line_count
    current_line,  \* TextWriter.current_line
    current_field, \* TextWriter.current_field
    num_fields,    \* TextWriter.num_fields
    type_entries,  \* TextWriter.type_entries
    block_data,    \* TextWriter.block_data
    ret,           \* the last call: its name, its arguments and the exception it raised
    calls,         \* the work done with the writer so far (capped by MaxWork)
    sections,      \* TextParser.sections
    result         \* what the last parse_file call returned or raised

vars == <<fp, written, fields, block_name, line_count, current_line, current_field,
          num_fields, type_entries, block_data, ret, calls, sections, result>>

writerVars == <<fp, written, fields, block_name, line_count, current_line,
                current_field, num_fields, type_entries, block_data, calls>>

-----------------------------------------------------------------------------
(* Bounds of the model *)

\* work done with one writer: an add_header call counts 2, a value handed to
\* add_field counts 1
MaxWork == 5

-----------------------------------------------------------------------------
(* Text helpers: Python str operations on sequences of characters *)

Min(S) == CHOOSE x \in S : \A y \in S : x <= y
Max(S) == CHOOSE x \in S : \A y \in S : x >= y

\* str.isspace() for one character
IsSpace(c) == c \in {" ", "\t", "\n", "\r"}

\* str.strip()
Strip(s) ==
    LET keep == {i \in 1..Len(s) : ~IsSpace(s[i])}
    IN  IF keep = {} THEN <<>> ELSE SubSeq(s, Min(keep), Max(keep))

\* " " * n  (the empty string when n <= 0)
Spaces(n) == [i \in 1..n |-> " "]
Dashes(n) == [i \in 1..n |-> "-"]

\* sub in s  for a one- or two-character sub
Contains(s, sub) ==
    \E i \in 1..(Len(s) - Len(sub) + 1) : SubSeq(s, i, i + Len(sub) - 1) = sub

\* s.startswith(p)
StartsWith(s, p) == Len(s) >= Len(p) /\ SubSeq(s, 1, Len(p)) = p

\* s.endswith(p)
EndsWith(s, p) == Len(s) >= Len(p) /\ SubSeq(s, Len(s) - Len(p) + 1, Len(s)) = p

\* s.split(sep, 1) for a separator that occurs in s: <<before, after>>
SplitOnce(s, sep) ==
    LET at == Min({i \in 1..(Len(s) - Len(sep) + 1) : SubSeq(s, i, i + Len(sep) - 1) = sep})
    IN  <<SubSeq(s, 1, at - 1), SubSeq(s, at + Len(sep), Len(s))>>

\* s.split(c) for a one-character separator c
RECURSIVE SplitChar(_, _)
SplitChar(s, c) ==
    LET at == {i \in 1..Len(s) : s[i] = c}
    IN  IF at = {} THEN <<s>>
        ELSE <<SubSeq(s, 1, Min(at) - 1)>> \o SplitChar(SubSeq(s, Min(at) + 1, Len(s)), c)

\* s.split(): the maximal runs of non-whitespace characters
RECURSIVE SplitSpace(_)
SplitSpace(s) ==
    LET t == {i \in 1..Len(s) : ~IsSpace(s[i])}
    IN  IF t = {} THEN <<>>
        ELSE LET b == Min(t)
                 stop == {i \in b..Len(s) : IsSpace(s[i])}
                 e == IF stop = {} THEN Len(s) ELSE Min(stop) - 1
             IN  <<SubSeq(s, b, e)>> \o SplitSpace(SubSeq(s, e + 1, Len(s)))

\* sep.join(parts)
RECURSIVE Join(_, _)
Join(parts, sep) ==
    IF parts = <<>> THEN <<>>
    ELSE IF Len(parts) = 1 THEN parts[1]
    ELSE parts[1] \o sep \o Join(Tail(parts), sep)

\* the text of a file: its writes in order
RECURSIVE Flatten(_)
Flatten(chunks) ==
    IF chunks = <<>> THEN <<>> ELSE chunks[1] \o Flatten(Tail(chunks))

\* sum(widths)
RECURSIVE Sum(_)
Sum(seq) == IF seq = <<>> THEN 0 ELSE seq[1] + Sum(Tail(seq))

Digit == <<"0", "1", "2", "3", "4", "5", "6", "7", "8", "9">>

\* the decimal digits of n >= 0
RECURSIVE Digits(_)
Digits(n) == IF n < 10 THEN <<Digit[n + 1]>> ELSE Digits(n \div 10) \o <<Digit[(n % 10) + 1]>>

\* f"{value}" for an int
FormatInt(v) == IF v < 0 THEN <<"-">> \o Digits(-v) ELSE Digits(v)

\* n as exactly w digits, zero padded
ZeroPad(n, w) == LET d == Digits(n) IN [i \in 1..(w - Len(d)) |-> "0"] \o d

\* f"{float(value):.6f}" for a float of v ticks (10^-7): round to nearest 10^-6
\* (no modelled input lies on a tie), keep the sign of v
FormatFloat(v) ==
    LET mag == IF v < 0 THEN -v ELSE v
        q == (mag + 5) \div 10
    IN  (IF v < 0 THEN <<"-">> ELSE <<>>)
        \o Digits(q \div 1000000) \o <<".">> \o ZeroPad(q % 1000000, 6)

\* An int too wide for one machine word is the sequence of its hexadecimal
\* digits (0..15), most significant first, of any length
HexDigit == <<"0", "1", "2", "3", "4", "5", "6", "7", "8", "9", "A", "B", "C", "D", "E", "F">>

\* value >> 32: the last 8 hexadecimal digits leave
ShiftRight32(v) == SubSeq(v, 1, Len(v) - 8)

\* value & 0xFFFFFFFF: the last 8 hexadecimal digits stay
Mask32(v) == SubSeq(v, Max({1, Len(v) - 7}), Len(v))

\* the digits of v without its leading zeros
RECURSIVE Significant(_)
Significant(v) == IF v # <<>> /\ v[1] = 0 THEN Significant(Tail(v)) ELSE v

\* format spec X: uppercase hexadecimal, "0" for zero
FormatHex(v) ==
    IF Significant(v) = <<>> THEN <<"0">>
    ELSE [i \in 1..Len(Significant(v)) |-> HexDigit[Significant(v)[i] + 1]]

\* format spec 08X: at least 8 digits, zero padded
Format08X(v) == [i \in 1..(8 - Len(FormatHex(v))) |-> "0"] \o FormatHex(v)

-----------------------------------------------------------------------------
(* Values handed to the writer and returned by the reader *)

IntV(n) == [k |-> "int", v |-> n]
FloatV(t) == [k |-> "float", v |-> t]
StrV(s) == [k |-> "str", v |-> s]
\* an int given by its hexadecimal digits
WideV(digits) == [k |-> "wide", digits |-> digits]

QUOTE == "\""

-----------------------------------------------------------------------------
(* textout.py *)

\* TextType.from_char
from_char(char) ==
    CASE char \in {"d", "D"} -> "INTEGER"
      [] char \in {"f", "F"} -> "FLOAT"
      [] char \in {"s", "S"} -> "STRING"
      [] char \in {"g", "G"} -> "GUID"
      [] OTHER -> "None"

\* TextField.__init__
TextField(name, type_chars) ==
    [name |-> name,
     type_chars |-> type_chars,
     types |-> [i \in 1..Len(type_chars) |-> from_char(type_chars[i])],
     total_space |-> [i \in 1..Len(type_chars) |-> 0],
     has_negative |-> [i \in 1..Len(type_chars) |-> FALSE],
     full_spec |-> name \o <<":">> \o type_chars,
     type_widths |-> <<>>,
     total_width |-> 0]

NoExc == [type |-> "None", msg |-> <<>>]
Raise(type, msg) == [type |-> type, msg |-> msg]

\* a variant of line 171 that does not shift
GuidHighUnshifted(v) == Mask32(v)

\* add_field, line 171: high = (value >> 32) & 0xFFFFFFFF
GuidHigh(v) == Mask32(ShiftRight32(v))

\* add_field, line 172: low = value & 0xFFFFFFFF
GuidLow(v) == Mask32(v)

\* add_field, line 173: f'"{high:08X}:{low:08X}"'
GuidText(v) ==
    <<QUOTE>> \o Format08X(GuidHigh(v)) \o <<":">> \o Format08X(GuidLow(v)) \o <<QUOTE>>

\* add_field, lines 151-174: the text of one value, whether it is numeric, whether
\* it sets the column's negative flag
Render(data_type, value) ==
    CASE data_type = "INTEGER" ->
           [value |-> FormatInt(value.v), is_digit |-> TRUE, negative |-> value.v < 0]
      [] data_type = "FLOAT" ->
           [value |-> FormatFloat(value.v), is_digit |-> TRUE, negative |-> value.v < 0]
      [] data_type = "STRING" ->
           [value |-> <<QUOTE>> \o value.v \o <<QUOTE>>, is_digit |-> FALSE, negative |-> FALSE]
      [] data_type = "GUID" ->
           [value |-> IF value.k = "str" THEN <<QUOTE>> \o value.v \o <<QUOTE>>
                      ELSE GuidText(value.digits),
            is_digit |-> FALSE, negative |-> FALSE]
      [] OTHER ->
           [value |-> <<>>, is_digit |-> FALSE, negative |-> FALSE]

\* add_field, lines 180-183: the width a value asks of its column
BaseWidth(is_digit, value, has_negative) ==
    IF is_digit /\ value[1] # "-" /\ has_negative THEN Len(value) + 1 ELSE Len(value)

\* add_field, lines 145-188: the values of one field, in order, paired with the
\* field's types (zip ends with the shorter of the two).  st is
\* [field, type_entries, block_data]
RECURSIVE AddValues(_, _, _, _)
AddValues(st, field_values, field_index, j) ==
    IF j > Len(field_values) \/ j > Len(st.field.types) THEN st
    ELSE LET r == Render(st.field.types[j], field_values[j])
             neg == st.field.has_negative[j] \/ r.negative
             base_width == BaseWidth(r.is_digit, r.value, neg)
             entry == [offset |-> Len(st.block_data),
                       length |-> Len(r.value),
                       field_index |-> field_index,
                       type_index |-> j - 1,
                       back_offset |-> 0,
                       is_digit |-> r.is_digit,
                       value |-> r.value]
             field == [st.field EXCEPT
                         !.has_negative[j] = neg,
                         !.total_space[j] = IF @ < base_width THEN base_width ELSE @]
         IN  AddValues([field |-> field,
                        type_entries |-> Append(st.type_entries, entry),
                        block_data |-> st.block_data \o r.value],
                       field_values, field_index, j + 1)

\* add_field, line 132: the position is one of the first line's fields
FieldInRange(current_field_index, fs) == current_field_index < Len(fs)

\* add_field, line 136: the spec names the field the first line defined there
NameMatches(field, name) == field.name = name

\* a variant of line 142 that takes any number of values
ArityMatchesAny(field_values, field) == TRUE

\* add_field, line 142: the values of the spec are as many as the field's components
ArityMatches(field_values, field) == Len(field_values) = Len(field.types)

\* add_field, lines 123-188: the specs of one call from the i-th on (i from 0).
\* st is [fields, num_fields, type_entries, block_data, exc]
RECURSIVE AddSpecs(_, _, _, _, _, _, _)
AddSpecs(st, field_specs, values, i, value_index, line, orig_current_field) ==
    IF i >= Len(field_specs) THEN st
    ELSE
    LET parts == SplitOnce(field_specs[i + 1], <<":">>)
        name == parts[1]
        type_chars == parts[2]
        current_field_index == orig_current_field + i
        first == line = 0
        pos == IF first THEN Len(st.fields) + 1 ELSE current_field_index + 1
        field_values == SubSeq(values, value_index + 1, value_index + Len(type_chars))
    IN  IF ~first /\ ~FieldInRange(current_field_index, st.fields)
        THEN [st EXCEPT !.exc = Raise("ValueError",
                 <<"Field index out of range", current_field_index, Len(st.fields)>>)]
        ELSE IF ~first /\ ~NameMatches(st.fields[pos], name)
        THEN [st EXCEPT !.exc = Raise("ValueError",
                 <<"Field name mismatch", st.fields[pos].name, name>>)]
        ELSE
        LET field == IF first THEN TextField(name, type_chars) ELSE st.fields[pos]
            st1 == IF first
                   THEN [st EXCEPT !.fields = Append(@, field), !.num_fields = @ + 1]
                   ELSE st
        IN  IF ~ArityMatches(field_values, field)
            THEN [st1 EXCEPT !.exc = Raise("ValueError",
                     <<"Expected values for field", Len(field.types), name, Len(field_values)>>)]
            ELSE
            LET v == AddValues([field |-> field,
                                type_entries |-> st1.type_entries,
                                block_data |-> st1.block_data],
                               field_values, current_field_index, 1)
                st2 == [st1 EXCEPT !.fields[pos] = v.field,
                                   !.type_entries = v.type_entries,
                                   !.block_data = v.block_data]
            IN  AddSpecs(st2, field_specs, values, i + 1,
                         value_index + Len(type_chars), line, orig_current_field)

\* add_field, lines 110-115: the number of values the specs ask for
RECURSIVE ExpectedValues(_)
ExpectedValues(field_specs) ==
    IF field_specs = <<>> THEN 0
    ELSE Len(SplitOnce(field_specs[1], <<":">>)[2]) + ExpectedValues(Tail(field_specs))

\* add_end_line, line 263: the header block is repeated after data line line_idx
HeaderEvery == 80
HeaderMinLeft == 10
\* a variant of line 263 that asks for one line less after the boundary
RepeatHeaderNear(line_idx, count) ==
    (line_idx + 1) % HeaderEvery = 0 /\ (count - line_idx) > HeaderMinLeft - 1

\* a variant of line 263 that asks for one line more after the boundary
RepeatHeaderFar(line_idx, count) ==
    (line_idx + 1) % HeaderEvery = 0 /\ (count - line_idx) > HeaderMinLeft + 1

\* add_end_line, line 263
RepeatHeader(line_idx, count) ==
    (line_idx + 1) % HeaderEvery = 0 /\ (count - line_idx) > HeaderMinLeft

\* add_end_line, lines 210-217: the widths of a field whose values take
\* total_width columns in all; type_widths[-1] of a field without components raises
LayoutTotal(field, type_widths, total_width, header_len) ==
    IF total_width >= header_len
    THEN [field |-> [field EXCEPT !.type_widths = type_widths, !.total_width = total_width],
          exc |-> NoExc]
    ELSE IF type_widths = <<>>
    THEN [field |-> field, exc |-> Raise("IndexError", <<"list index out of range">>)]
    ELSE [field |-> [field EXCEPT
                       !.type_widths = [type_widths EXCEPT
                                          ![Len(type_widths)] = @ + (header_len - total_width)],
                       !.total_width = header_len],
          exc |-> NoExc]

\* add_end_line, line 208
LayoutWidths(field, type_widths) ==
    LayoutTotal(field, type_widths, Sum(type_widths) + Len(type_widths) - 1,
                Len(field.full_spec))

\* add_end_line, lines 203-217: the column widths of one field (field.type_widths
\* and field.total_width)
LayoutField(field) ==
    LayoutWidths(field, [i \in 1..Len(field.total_space) |->
                            IF field.total_space[i] > 1 THEN field.total_space[i] ELSE 1])

\* add_end_line, lines 202-221: the layout of the fields from the i-th on
RECURSIVE LayoutFields(_, _)
LayoutNext(fs, i, r) ==
    IF r.exc # NoExc THEN [fields |-> fs, exc |-> r.exc]
    ELSE LayoutFields([fs EXCEPT ![i] = r.field], i + 1)
LayoutFields(fs, i) ==
    IF i > Len(fs) THEN [fields |-> fs, exc |-> NoExc]
    ELSE LayoutNext(fs, i, LayoutField(fs[i]))

\* add_end_line, lines 219 and 267: a field's header spec padded to its width
PaddedSpec(field) == field.full_spec \o Spaces(field.total_width - Len(field.full_spec))

\* add_end_line, line 223: the schema line
HeaderLine(fs) ==
    <<" ", "{", " ">> \o Join([i \in 1..Len(fs) |-> PaddedSpec(fs[i])], <<" ">>)
                      \o <<" ", "}", "\n">>

\* add_end_line, lines 224, 264 and 270: the separator line
SeparatorLine(fs) ==
    <<"/", "/", " ">> \o Join([i \in 1..Len(fs) |-> Dashes(fs[i].total_width)], <<" ">>)
                      \o <<" ", "\n">>

\* add_end_line, lines 265-269: the header specs as a comment line
HeaderComment(fs) ==
    <<"/", "/", " ">> \o Join([i \in 1..Len(fs) |-> PaddedSpec(fs[i])], <<" ">>)
                      \o <<"\n">>

\* add_end_line, lines 264-270: the repeated header block
HeaderBlock(fs) == <<SeparatorLine(fs), HeaderComment(fs), SeparatorLine(fs)>>

\* a variant of lines 238-240 that disregards the column's negative flag
SignPrefixAlways(entry, has_negative) ==
    IF entry.is_digit /\ entry.value[1] # "-" THEN <<" ">> ELSE <<>>

\* add_end_line, lines 238-240: the sign column of a value
SignPrefix(entry, has_negative) ==
    IF entry.is_digit /\ has_negative /\ entry.value[1] # "-" THEN <<" ">> ELSE <<>>

\* add_end_line, lines 242-251: value_str joins the text of the field; a value that
\* is not the last of its field is padded to type_width and followed by a space
PutValue(acc, value_str, type_width, last) ==
    [field_str |-> IF last THEN acc.field_str \o value_str
                   ELSE acc.field_str \o value_str
                          \o Spaces(type_width - Len(value_str)) \o <<" ">>,
     current_width |-> IF last THEN acc.current_width + Len(value_str)
                       ELSE acc.current_width + Len(value_str)
                              + (type_width - Len(value_str)) + 1,
     entry_index |-> acc.entry_index + 1,
     exc |-> NoExc]

\* add_end_line, lines 234-251: the values of one field of one data line from
\* type_idx on (from 0), taken from entries[entry_index] on (entry_index from 0).
\* acc is [field_str, current_width, entry_index, exc]
RECURSIVE FieldValues(_, _, _, _)
FieldValues(acc, field, entries, type_idx) ==
    IF type_idx >= Len(field.type_widths) THEN acc
    ELSE IF acc.entry_index >= Len(entries)
    THEN [acc EXCEPT !.exc = Raise("IndexError", <<"list index out of range">>)]
    ELSE FieldValues(
             PutValue(acc,
                      SignPrefix(entries[acc.entry_index + 1], field.has_negative[type_idx + 1])
                          \o entries[acc.entry_index + 1].value,
                      field.type_widths[type_idx + 1],
                      ~(type_idx < Len(field.type_widths) - 1)),
             field, entries, type_idx + 1)

\* add_end_line, lines 253-254: the field padded to its total width
PadField(acc, total_width) ==
    IF acc.exc # NoExc THEN acc
    ELSE [acc EXCEPT !.field_str = @ \o Spaces(total_width - acc.current_width)]

\* add_end_line, lines 231-254: the text of one field of one data line
FieldStr(field, entries, entry_index) ==
    PadField(FieldValues([field_str |-> <<>>, current_width |-> 0,
                          entry_index |-> entry_index, exc |-> NoExc],
                         field, entries, 0),
             field.total_width)

\* add_end_line, lines 230-259: the writes of the fields of one data line from
\* field_idx on (from 0).  acc is [out, entry_index, exc]
RECURSIVE LineFields(_, _, _, _)
LineField(acc, fs, entries, field_idx, f) ==
    IF f.exc # NoExc THEN [acc EXCEPT !.exc = f.exc]
    ELSE LineFields(
             [out |-> acc.out \o <<f.field_str>>
                        \o (IF field_idx < Len(fs) - 1 THEN << <<" ">> >> ELSE <<>>),
              entry_index |-> f.entry_index,
              exc |-> NoExc],
             fs, entries, field_idx + 1)
LineFields(acc, fs, entries, field_idx) ==
    IF field_idx >= Len(fs) THEN acc
    ELSE LineField(acc, fs, entries, field_idx,
                   FieldStr(fs[field_idx + 1], entries, acc.entry_index))

\* the entries one data line takes from type_entries (lines 234-236)
RECURSIVE EntriesPerLine(_)
EntriesPerLine(fs) ==
    IF fs = <<>> THEN 0 ELSE Len(fs[1].type_widths) + EntriesPerLine(Tail(fs))

\* add_end_line, lines 261-270: the end of a data line whose fields wrote l
LineEnd(l, fs, count, line_idx) ==
    IF l.exc # NoExc THEN [out |-> l.out, exc |-> l.exc]
    ELSE [out |-> l.out \o << <<"\n">> >>
                    \o (IF RepeatHeader(line_idx, count) THEN HeaderBlock(fs) ELSE <<>>),
          exc |-> NoExc]

\* add_end_line, lines 228-270: the writes of data line line_idx (from 0), which
\* starts at entry line_idx * EntriesPerLine(fs) since every line before it took
\* that many entries
DataLine(fs, entries, count, line_idx) ==
    LineEnd(LineFields([out |-> << <<" ", " ", " ">> >>,
                        entry_index |-> line_idx * EntriesPerLine(fs),
                        exc |-> NoExc],
                       fs, entries, 0),
            fs, count, line_idx)

\* the writes of lines[lo..hi], in order
RECURSIVE Concat(_, _, _)
Concat(lines, lo, hi) ==
    IF lo > hi THEN <<>>
    ELSE IF lo = hi THEN lines[lo].out
    ELSE Concat(lines, lo, (lo + hi) \div 2) \o Concat(lines, (lo + hi) \div 2 + 1, hi)

\* add_end_line, line 227: the loop over the data lines stops at the first line
\* that raises
LinesWritten(lines) ==
    IF \A k \in 1..Len(lines) : lines[k].exc = NoExc
    THEN [out |-> Concat(lines, 1, Len(lines)), exc |-> NoExc]
    ELSE [out |-> Concat(lines, 1, Min({k \in 1..Len(lines) : lines[k].exc # NoExc})),
          exc |-> lines[Min({k \in 1..Len(lines) : lines[k].exc # NoExc})].exc]

\* add_end_line, lines 226-270: the writes of the data lines
DataLines(fs, entries, count) ==
    LinesWritten([k \in 1..count |-> DataLine(fs, entries, count, k - 1)])

\* add_end_line, line 272: the blank line that ends the section
FlushEnd(head, d, fs) ==
    IF d.exc # NoExc THEN [out |-> head \o d.out, fields |-> fs, exc |-> d.exc]
    ELSE [out |-> head \o d.out \o << <<"\n">> >>, fields |-> fs, exc |-> NoExc]

\* add_end_line, lines 197-270: the writes of a section whose fields are laid out
FlushLaidOut(lay, name, entries, count) ==
    IF lay.exc # NoExc
    THEN [out |-> <<name>>, fields |-> lay.fields, exc |-> lay.exc]
    ELSE FlushEnd(<<name, HeaderLine(lay.fields), SeparatorLine(lay.fields)>>,
                  DataLines(lay.fields, entries, count),
                  lay.fields)

\* add_end_line, lines 197-272: the flush of the section: the writes made, the
\* fields with their layout, and the exception that ended it, if any
Flush(fs, name, entries, count) == FlushLaidOut(LayoutFields(fs, 1), name, entries, count)

\* a variant of line 196 without the test for a count of 0
LastLineCounted(count, line) == line = count

\* add_end_line, line 196: this call ends the section
LastLine(count, line) == count = 0 \/ line = count

\* add_end_line, lines 197-272, on the writer state w
Flushed(w, f) == [w EXCEPT !.written = @ \o f.out, !.fields = f.fields, !.exc = f.exc]

\* add_end_line, lines 196-272, the line counted
EndLineAt(w) ==
    IF ~LastLine(w.line_count, w.current_line) THEN w
    ELSE IF w.fp = "None"
    THEN [w EXCEPT !.exc = Raise("AttributeError", <<"'NoneType' object has no attribute 'write'">>)]
    ELSE Flushed(w, Flush(w.fields, w.block_name, w.type_entries, w.line_count))

\* add_end_line as a whole, from the writer state w: [fp, written, fields,
\* block_name, line_count, current_line, current_field, type_entries, exc]
EndLine(w) == EndLineAt([w EXCEPT !.current_line = @ + 1, !.current_field = 0, !.exc = NoExc])

-----------------------------------------------------------------------------
(* textin.py *)

Letters ==
    {"a", "b", "c", "d", "e", "f", "g", "h", "i", "j", "k", "l", "m", "n", "o", "p", "q",
     "r", "s", "t", "u", "v", "w", "x", "y", "z", "A", "B", "C", "D", "E", "F", "G", "H",
     "I", "J", "K", "L", "M", "N", "O", "P", "Q", "R", "S", "T", "U", "V", "W", "X", "Y", "Z"}

\* str.isalpha() for one character
IsAlpha(c) == c \in Letters

IsDigit(c) == c \in {"0", "1", "2", "3", "4", "5", "6", "7", "8", "9"}

DigitValue(c) == CHOOSE d \in 0..9 : Digit[d + 1] = c

\* the number written by a run of decimal digits
RECURSIVE Number(_)
Number(ds) == IF ds = <<>> THEN 0 ELSE Number(SubSeq(ds, 1, Len(ds) - 1)) * 10 + DigitValue(ds[Len(ds)])

\* int(text): an optional sign and decimal digits, anything else raises ValueError
ParseInt(text) ==
    LET signed == Len(text) > 0 /\ text[1] \in {"-", "+"}
        ds == IF signed THEN Tail(text) ELSE text
    IN  IF ds # <<>> /\ \A i \in 1..Len(ds) : IsDigit(ds[i])
        THEN [ok |-> TRUE, v |-> IF signed /\ text[1] = "-" THEN -Number(ds) ELSE Number(ds)]
        ELSE [ok |-> FALSE, v |-> 0]

\* float(text) in ticks: an optional sign, decimal digits and at most one '.', with
\* at most 7 decimals (the modelled tokens hold no exponent); anything else raises
ParseFloat(text) ==
    LET signed == Len(text) > 0 /\ text[1] \in {"-", "+"}
        body == IF signed THEN Tail(text) ELSE text
        dots == {i \in 1..Len(body) : body[i] = "."}
        whole == IF dots = {} THEN body ELSE SubSeq(body, 1, Min(dots) - 1)
        frac == IF dots = {} THEN <<>> ELSE SubSeq(body, Min(dots) + 1, Len(body))
        ok == /\ Cardinality(dots) <= 1
              /\ Len(whole) + Len(frac) > 0
              /\ Len(frac) <= 7
              /\ \A i \in 1..Len(whole) : IsDigit(whole[i])
              /\ \A i \in 1..Len(frac) : IsDigit(frac[i])
        mag == Number(whole) * 10000000 + Number(frac \o [i \in 1..(7 - Len(frac)) |-> "0"])
    IN  IF ok THEN [ok |-> TRUE, v |-> IF signed /\ text[1] = "-" THEN -mag ELSE mag]
        ELSE [ok |-> FALSE, v |-> 0]

\* TextField.parse_value for one value
ParseValue(data_type, value) ==
    CASE data_type = "INTEGER" ->
           LET r == ParseInt(value) IN [ok |-> r.ok, v |-> IntV(r.v)]
      [] data_type = "FLOAT" ->
           LET r == ParseFloat(value) IN [ok |-> r.ok, v |-> FloatV(r.v)]
      [] data_type = "STRING" ->
           [ok |-> TRUE,
            v |-> IF StartsWith(value, <<QUOTE>>) /\ EndsWith(value, <<QUOTE>>)
                  THEN StrV(SubSeq(value, 2, Len(value) - 1))
                  ELSE StrV(value)]
      [] OTHER -> [ok |-> TRUE, v |-> StrV(value)]

\* parse_section, lines 132-136: the text of the first '{ ... }' block, stripped
\* (re.search of {\s*(.*?)\s*} with DOTALL), or no match
FieldsMatch(section_content) ==
    LET closes == {i \in 1..Len(section_content) : section_content[i] = "}"}
        opens == {i \in 1..Len(section_content) :
                     section_content[i] = "{" /\ \E j \in closes : j > i}
    IN  IF opens = {} THEN [found |-> FALSE, raw |-> <<>>]
        ELSE LET o == Min(opens)
                 c == Min({j \in closes : j > o})
             IN  [found |-> TRUE, raw |-> Strip(SubSeq(section_content, o + 1, c - 1))]

\* parse_section, lines 140-141: the places after index i (from 0) where a field
\* declaration can start
FieldStarts(fields_raw, i) ==
    {j \in (i + 1)..Len(fields_raw) : ~(IsSpace(fields_raw[j]) \/ fields_raw[j] = ",")}

\* parse_section, line 147: the ':' characters from place b on
Colons(fields_raw, b) == {j \in b..Len(fields_raw) : fields_raw[j] = ":"}

\* parse_section, lines 159-161: the place of the last letter of the run of
\* letters that starts at place t
TypeEnd(fields_raw, t) ==
    IF \A j \in t..Len(fields_raw) : IsAlpha(fields_raw[j]) THEN Len(fields_raw)
    ELSE Min({j \in t..Len(fields_raw) : ~IsAlpha(fields_raw[j])}) - 1

RECURSIVE ParseFields(_, _, _)

\* parse_section, lines 163-170: the declaration field_name:field_type, which ends
\* at place e
FieldTyped(acc, fields_raw, field_name, field_type, e) ==
    IF \E j \in 1..Len(field_type) : from_char(field_type[j]) = "None"
    THEN [acc EXCEPT !.exc = Raise("ValueError",
             <<"Unexpected dimension in row",
               field_type[Min({j \in 1..Len(field_type) : from_char(field_type[j]) = "None"})],
               field_name>>)]
    ELSE ParseFields(
             IF field_name # <<>> /\ field_type # <<>>
             THEN [acc EXCEPT !.fields = Append(@,
                      [name |-> field_name, type_chars |-> field_type,
                       types |-> [j \in 1..Len(field_type) |-> from_char(field_type[j])]])]
             ELSE acc,
             fields_raw, e)

\* parse_section, lines 153-161: the ':' after the name and the type letters
FieldNamed(acc, fields_raw, field_name, colons) ==
    IF colons = {}
    THEN [acc EXCEPT !.exc = Raise("ValueError",
             <<"Not found splitter ':' after row name", field_name>>)]
    ELSE FieldTyped(acc, fields_raw, field_name,
                    SubSeq(fields_raw, Min(colons) + 1, TypeEnd(fields_raw, Min(colons) + 1)),
                    TypeEnd(fields_raw, Min(colons) + 1))

\* parse_section, lines 146-151: the declaration that starts at place b
FieldAt(acc, fields_raw, b) ==
    FieldNamed(acc, fields_raw,
               Strip(SubSeq(fields_raw, b,
                            IF Colons(fields_raw, b) = {} THEN Len(fields_raw)
                            ELSE Min(Colons(fields_raw, b)) - 1)),
               Colons(fields_raw, b))

\* parse_section, lines 139-170: the field declarations of fields_raw from index i
\* (from 0) on.  acc is [fields, exc]
ParseFields(acc, fields_raw, i) ==
    IF FieldStarts(fields_raw, i) = {} THEN acc
    ELSE FieldAt(acc, fields_raw, Min(FieldStarts(fields_raw, i)))

\* parse_section, lines 136-170: section.fields
SectionFields(m) ==
    IF m.found THEN ParseFields([fields |-> <<>>, exc |-> NoExc], m.raw, 0)
    ELSE [fields |-> <<>>, exc |-> NoExc]

\* parse_section, lines 180, 187 and 194: the text joins lines unless it is empty
\* or a line comment
KeepLine(lines, text) ==
    IF text # <<>> /\ ~StartsWith(text, <<"/", "/">>) THEN Append(lines, text) ELSE lines

\* parse_section, lines 175-195: one line of the section.  acc is
\* [lines, is_commentary]
KeptLine(acc, line_stripped) ==
    IF Contains(line_stripped, <<"/", "*">>) /\ ~acc.is_commentary
    THEN [lines |-> KeepLine(acc.lines, Strip(SplitOnce(line_stripped, <<"/", "*">>)[1])),
          is_commentary |-> TRUE]
    ELSE IF Contains(line_stripped, <<"*", "/">>) /\ acc.is_commentary
    THEN [lines |-> KeepLine(acc.lines, Strip(SplitOnce(line_stripped, <<"*", "/">>)[2])),
          is_commentary |-> FALSE]
    ELSE IF acc.is_commentary THEN acc
    ELSE [acc EXCEPT !.lines = KeepLine(@, line_stripped)]

\* parse_section, lines 172-195: the lines kept after comment stripping
RECURSIVE KeptLines(_, _, _)
KeptLines(acc, raw_lines, i) ==
    IF i > Len(raw_lines) THEN acc.lines
    ELSE KeptLines(KeptLine(acc, Strip(raw_lines[i])), raw_lines, i + 1)

\* parse_section, line 197: a kept line is a data line
IsDataLine(line) == ~(StartsWith(line, <<"{">>) \/ StartsWith(line, <<"-">>))

\* parse_section, line 197: data_lines
RECURSIVE DataLinesOf(_)
DataLinesOf(lines) ==
    IF lines = <<>> THEN <<>>
    ELSE (IF IsDataLine(lines[1]) THEN <<lines[1]>> ELSE <<>>) \o DataLinesOf(Tail(lines))

\* parse_section, lines 208-224: the tokens of a data line from character i on.
\* acc is [values, current, in_quotes]
RECURSIVE Tokens(_, _, _)
Tokens(acc, line, i) ==
    IF i > Len(line)
    THEN IF acc.current # <<>> THEN Append(acc.values, acc.current) ELSE acc.values
    ELSE LET char == line[i]
         IN  IF char = QUOTE
             THEN Tokens([acc EXCEPT !.in_quotes = ~@, !.current = Append(@, char)], line, i + 1)
             ELSE IF IsSpace(char) /\ ~acc.in_quotes
             THEN Tokens(IF acc.current # <<>>
                         THEN [acc EXCEPT !.values = Append(@, acc.current), !.current = <<>>]
                         ELSE acc, line, i + 1)
             ELSE Tokens([acc EXCEPT !.current = Append(@, char)], line, i + 1)

\* a variant of lines 208-224 that splits at every whitespace
TokenizeAnySpace(line) == SplitSpace(line)

\* parse_section, lines 208-224: values
Tokenize(line) ==
    Tokens([values |-> <<>>, current |-> <<>>, in_quotes |-> FALSE], line, 1)

\* TextField.parse_value, lines 41-53, and parse_section, lines 235-238: the
\* converted values of one field, or the failure of int() or float()
Converted(conv) ==
    IF \E j \in 1..Len(conv) : ~conv[j].ok THEN [ok |-> FALSE, v |-> <<>>]
    ELSE [ok |-> TRUE,
          v |-> IF Len(conv) = 1 THEN conv[1].v ELSE [j \in 1..Len(conv) |-> conv[j].v]]

\* TextField.parse_value on the values of one field
ConvertField(field, field_values) ==
    Converted([j \in 1..Len(field.types) |-> ParseValue(field.types[j], field_values[j])])

RECURSIVE ParseRow(_, _, _, _)

\* a variant of line 228 that asks for a token to spare
EnoughTokensAndOne(value_index, num_values, values) ==
    value_index + num_values < Len(values)

\* parse_section, line 228: the tokens left are enough for the field
EnoughTokens(value_index, num_values, values) ==
    value_index + num_values <= Len(values)

\* parse_section, lines 233-241: the converted values of field join the row
RowField(acc, fs, values, i, field, field_values, c) ==
    IF ~c.ok
    THEN [acc EXCEPT !.exc = Raise("ValueError",
             <<"Error processing field", field.name, field_values>>)]
    ELSE ParseRow([parsed_row |-> Append(acc.parsed_row, c.v),
                   value_index |-> acc.value_index + Len(field.types),
                   exc |-> NoExc],
                  fs, values, i + 1)

\* parse_section, lines 226-243: the row of one data line, field after field from
\* the i-th on (from 0).  acc is [parsed_row, value_index, exc]
ParseRow(acc, fs, values, i) ==
    IF i >= Len(fs) THEN acc
    ELSE IF EnoughTokens(acc.value_index, Len(fs[i + 1].types), values)
    THEN RowField(acc, fs, values, i, fs[i + 1],
                  SubSeq(values, acc.value_index + 1, acc.value_index + Len(fs[i + 1].types)),
                  ConvertField(fs[i + 1],
                               SubSeq(values, acc.value_index + 1,
                                      acc.value_index + Len(fs[i + 1].types))))
    ELSE [acc EXCEPT !.exc = Raise("ValueError",
             <<"Unexpected dimension in field", fs[i + 1].name, Len(fs[i + 1].types),
               Len(values) - acc.value_index>>)]

RECURSIVE ParseRows(_, _, _, _)

\* parse_section, line 245: section.add_data_row(parsed_row)
RowParsed(acc, fs, data_lines, i, r) ==
    IF r.exc # NoExc THEN [acc EXCEPT !.exc = r.exc]
    ELSE ParseRows([acc EXCEPT !.data = Append(@, r.parsed_row)], fs, data_lines, i + 1)

\* parse_section, lines 203-245: the rows of the data lines from the i-th on.
\* acc is [data, exc]
ParseRows(acc, fs, data_lines, i) ==
    IF i > Len(data_lines) THEN acc
    ELSE RowParsed(acc, fs, data_lines, i,
                   ParseRow([parsed_row |-> <<>>, value_index |-> 0, exc |-> NoExc],
                            fs, Tokenize(data_lines[i]), 0))

\* a variant of lines 247-248 that accepts fewer rows than declared
CountAtMost(count, rows) == count = <<>> \/ rows <= count[1]

\* parse_section, lines 247-248: the rows found agree with the declared count
\* (count is <<>> for None, <<n>> for n)
CountMatches(count, rows) == count = <<>> \/ rows = count[1]

\* parse_section, line 129: count, or the failure of int().  count_str is <<>>
\* for None and <<text>> for a string
ParseCount(count_str) ==
    IF count_str # <<>> /\ count_str[1] # <<>>
    THEN [ok |-> ParseInt(count_str[1]).ok, count |-> <<ParseInt(count_str[1]).v>>]
    ELSE [ok |-> TRUE, count |-> <<>>]

\* parse_section, lines 172-197: data_lines
SectionDataLines(section_content) ==
    DataLinesOf(KeptLines([lines |-> <<>>, is_commentary |-> FALSE],
                          SplitChar(section_content, "\n"), 1))

\* parse_section, lines 247-250: the count check and the section kept
SectionChecked(name, count, fs, rows) ==
    IF rows.exc # NoExc THEN [exc |-> rows.exc]
    ELSE IF ~CountMatches(count, Len(rows.data))
    THEN [exc |-> Raise("ValueError",
             <<"Unexpected dimension in section", name, count[1], Len(rows.data)>>)]
    ELSE [exc |-> NoExc,
          section |-> [name |-> name, count |-> count, fields |-> fs, data |-> rows.data]]

\* parse_section, lines 199-250: the rows of the section whose fields are f
SectionRows(name, count, f, data_lines) ==
    IF f.exc # NoExc THEN [exc |-> f.exc]
    ELSE SectionChecked(name, count, f.fields,
                        ParseRows([data |-> <<>>, exc |-> NoExc], f.fields, data_lines, 1))

\* parse_section, lines 130-250, count being converted
SectionCounted(name, c, count_str, section_content) ==
    IF ~c.ok
    THEN [exc |-> Raise("ValueError", <<"invalid literal for int()", count_str[1]>>)]
    ELSE SectionRows(name, c.count, SectionFields(FieldsMatch(section_content)),
                     SectionDataLines(section_content))

\* TextParser.parse_section: the section decoded, or the exception raised
ParseSection(name, count_str, section_content) ==
    SectionCounted(name, ParseCount(count_str), count_str, section_content)

\* a variant of line 250 that keeps the section stored first
StoreFirst(secs, name, section) ==
    [n \in (DOMAIN secs) \cup {name} |-> IF n \in DOMAIN secs THEN secs[n] ELSE section]

\* parse_section, line 250: self.sections[name] = section
Store(secs, name, section) ==
    [n \in (DOMAIN secs) \cup {name} |-> IF n = name THEN section ELSE secs[n]]

\* parse_file, line 107: the line opens a section
IsHeader(line, in_quotes) ==
    ~in_quotes /\ StartsWith(line, <<"[">>) /\ Contains(line, <<"]">>)

\* parse_file, lines 115-118: current_section from the parts of the header
HeaderParts(parts) ==
    [name |-> Strip(parts[1]),
     count_str |-> IF Len(parts) > 1 THEN <<Strip(parts[2])>> ELSE <<>>]

\* parse_file, lines 112-118: the name and the count text of a header line
HeaderOf(line) ==
    HeaderParts(SplitChar(SubSeq(line, 2, Min({i \in 1..Len(line) : line[i] = "]"}) - 1), ":"))

\* parse_file, lines 103-105: in_quotes after the characters of the line
ToggleQuotes(in_quotes, line) ==
    IF Cardinality({j \in 1..Len(line) : line[j] = QUOTE}) % 2 = 1
    THEN ~in_quotes ELSE in_quotes

\* parse_file, lines 109-110 and 124: the outcome done of parse_section on the
\* state acc of the loop
SectionClosed(acc, done) ==
    IF done.exc # NoExc THEN [acc EXCEPT !.exc = done.exc]
    ELSE [acc EXCEPT !.sections = Store(@, done.section.name, done.section),
                     !.current_content = <<>>]

\* parse_file, lines 108-110 and 123-124: the pending section, if any, is parsed
CloseSection(acc) ==
    IF acc.current_section = <<>> THEN acc
    ELSE SectionClosed(acc, ParseSection(acc.current_section[1].name,
                                         acc.current_section[1].count_str,
                                         acc.current_content))

RECURSIVE ParseLines(_, _, _)

\* parse_file, lines 112-118: a header line, the pending section being closed
SectionOpened(acc, lines, i, line, in_quotes) ==
    IF acc.exc # NoExc THEN acc
    ELSE ParseLines([acc EXCEPT !.current_section = <<HeaderOf(line)>>,
                                !.in_quotes = in_quotes],
                    lines, i + 1)

\* parse_file, lines 103-121: a line that is not empty
ParseLine(acc, lines, i, line, in_quotes) ==
    IF IsHeader(line, in_quotes)
    THEN SectionOpened(CloseSection(acc), lines, i, line, in_quotes)
    ELSE ParseLines([acc EXCEPT !.in_quotes = in_quotes,
                                !.current_content = IF acc.current_section # <<>>
                                                    THEN @ \o line \o <<"\n">> ELSE @],
                    lines, i + 1)

\* parse_file, lines 96-121: the lines of the file from the i-th on.  acc is
\* [sections, current_section, current_content, in_quotes, exc]; current_section
\* is <<>> for None, <<header>> otherwise
ParseLines(acc, lines, i) ==
    IF i > Len(lines) THEN acc
    ELSE IF Strip(lines[i]) = <<>> THEN ParseLines(acc, lines, i + 1)
    ELSE ParseLine(acc, lines, i, Strip(lines[i]),
                   ToggleQuotes(acc.in_quotes, Strip(lines[i])))

\* a variant of lines 123-126 that returns whatever the last section did
FileEndSwallowed(acc) ==
    IF acc.exc # NoExc THEN acc ELSE [CloseSection(acc) EXCEPT !.exc = NoExc]

\* parse_file, lines 123-126: the end of the file
FileEnd(acc) == IF acc.exc # NoExc THEN acc ELSE CloseSection(acc)

\* TextParser.parse_file on a file of the given content, self.sections being secs:
\* the new self.sections and the exception raised, if any
ParseFile(secs, content) ==
    FileEnd(ParseLines([sections |-> secs, current_section |-> <<>>,
                        current_content |-> <<>>, in_quotes |-> FALSE, exc |-> NoExc],
                       SplitChar(content, "\n"), 1))

-----------------------------------------------------------------------------
(* Inputs of the writer *)

SectionNames == {<<"A">>}

\* the field_spec arguments of add_field
FieldSpecInputs ==
    { <<"x", ":", "d">>,                          \* one Integer
      <<"v", ":", "d", "f">>,                     \* an Integer and a Float
      <<"n", ":", "s">>,                          \* one String
      <<"x", ":", "d", " ", "n", ":", "s">>,      \* two specs in one call
      <<"v", ":", "d">>,                          \* v with one component
      <<"x">> }                                   \* no ':'

IntInputs == {IntV(-1), IntV(100)}
\* -0.5, 0.3333333
FloatInputs == {FloatV(-5000000), FloatV(3333333)}
StrInputs == {StrV(<<"b", " ", "c">>)}

\* Guid values: 0, 0x1F, 0x100000000, 0x0123456789ABCDEF, 2^64 - 1, 2^64
\* and a text
GuidInputs ==
    { WideV(<<0>>),
      WideV(<<1, 15>>),
      WideV(<<1, 0, 0, 0, 0, 0, 0, 0, 0>>),
      WideV(<<0, 1, 2, 3, 4, 5, 6, 7, 8, 9, 10, 11, 12, 13, 14, 15>>),
      WideV([i \in 1..16 |-> 15]),
      WideV(<<1>> \o [i \in 1..16 |-> 0]),
      StrV(<<"a", "b">>) }

\* well-typed values for one type character
ValuesOfType(char) ==
    CASE from_char(char) = "INTEGER" -> IntInputs
      [] from_char(char) = "FLOAT" -> FloatInputs
      [] from_char(char) = "STRING" -> StrInputs
      [] from_char(char) = "GUID" -> GuidInputs
      [] OTHER -> {}

\* the type characters of a field_spec, spec after spec (none for a spec without ':')
RECURSIVE TypeChars(_)
TypeChars(field_specs) ==
    IF field_specs = <<>> THEN <<>>
    ELSE (IF Contains(field_specs[1], <<":">>)
          THEN SplitOnce(field_specs[1], <<":">>)[2] ELSE <<>>)
         \o TypeChars(Tail(field_specs))

\* the well-typed value tuples for a sequence of type characters
RECURSIVE Tuples(_)
Tuples(chars) ==
    IF chars = <<>> THEN {<<>>}
    ELSE {<<v>> \o t : v \in ValuesOfType(chars[1]), t \in Tuples(Tail(chars))}

\* the values arguments of add_field(field_spec, *values): every well-typed tuple,
\* and each of them with its last value missing
ValueInputs(field_spec) ==
    LET full == Tuples(TypeChars(SplitSpace(field_spec)))
    IN  full \cup {SubSeq(t, 1, Len(t) - 1) : t \in {u \in full : Len(u) > 0}}

\* the count arguments of add_header (-1 is the default)
MaxCount == 3
Counts == -1..MaxCount

\* add_end_line calls accepted past the end of the section
MaxExtraEnds == 1

-----------------------------------------------------------------------------
(* State *)

NoResult == [status |-> "none"]
Called(op, exc) == [op |-> op, exc |-> exc]

Writer ==
    [fp |-> fp, written |-> written, fields |-> fields, block_name |-> block_name,
     line_count |-> line_count, current_line |-> current_line,
     current_field |-> current_field, type_entries |-> type_entries, exc |-> NoExc]

\* TextWriter.__init__ and TextParser.__init__
Init ==
    /\ fp = "None"
    /\ written = <<>>
    /\ fields = <<>>
    /\ block_name = <<>>
    /\ line_count = 0
    /\ current_line = 0
    /\ current_field = 0
    /\ num_fields = 0
    /\ type_entries = <<>>
    /\ block_data = <<>>
    /\ ret = Called("__init__", NoExc)
    /\ calls = 0
    /\ sections = <<>>
    /\ result = NoResult

\* TextWriter.open_file: a new, empty file
OpenFile ==
    /\ ret.op = "__init__"
    /\ fp' = "open"
    /\ written' = <<>>
    /\ ret' = Called("open_file", NoExc)
    /\ UNCHANGED <<fields, block_name, line_count, current_line, current_field,
                   num_fields, type_entries, block_data, calls, sections, result>>

\* TextWriter.close_file, called from the finally clause of the export (line 905)
CloseFile ==
    /\ fp = "open"
    /\ fp' = "None"
    /\ ret' = Called("close_file", NoExc)
    /\ UNCHANGED <<written, fields, block_name, line_count, current_line, current_field,
                   num_fields, type_entries, block_data, calls, sections, result>>

\* the first line of a section: block_name
BlockName(header_name, count) ==
    IF count < 0
    THEN <<"[", " ">> \o header_name \o <<" ", "]", "\n">>
    ELSE <<"[", " ">> \o header_name \o <<" ", ":", " ">> \o FormatInt(count) \o <<" ", "]", "\n">>

\* the export is running: the file is open and no call has raised (an exception
\* ends the export, matx_exporter.py lines 897-906)
Running == fp = "open" /\ ret.exc = NoExc

\* add_header, lines 87-99: the writer state after the resets
HeaderReset(header_name, count) ==
    [Writer EXCEPT !.fields = <<>>,
                   !.block_name = BlockName(header_name, count),
                   !.line_count = IF count < 0 THEN 1 ELSE count,
                   !.current_line = 0,
                   !.current_field = 0,
                   !.type_entries = <<>>]

\* the writer state w reached by add_header
HeaderAdded(w) ==
    /\ fields' = w.fields
    /\ block_name' = w.block_name
    /\ line_count' = w.line_count
    /\ current_line' = w.current_line
    /\ current_field' = w.current_field
    /\ type_entries' = w.type_entries
    /\ written' = w.written
    /\ ret' = Called("add_header", w.exc)

\* TextWriter.add_header
AddHeader(header_name, count) ==
    /\ Running
    /\ HeaderAdded(IF count = 0 THEN EndLine(HeaderReset(header_name, count))
                   ELSE HeaderReset(header_name, count))
    /\ num_fields' = 0
    /\ block_data' = <<>>
    /\ calls' = calls + 2
    /\ UNCHANGED <<fp, sections, result>>

\* a variant of line 106 that is off by one
LineBudgetLeftOrLast == current_line <= line_count

\* add_field, line 106
LineBudgetLeft == current_line < line_count

\* add_field raises before it changes anything
FieldRefused(exc) ==
    /\ ret' = Called("add_field", exc)
    /\ UNCHANGED <<fields, num_fields, type_entries, block_data, current_field, calls>>

\* the state st reached by the loop of add_field over n specs (line 190 is
\* reached when no spec raised)
FieldsAdded(st, n) ==
    /\ fields' = st.fields
    /\ num_fields' = st.num_fields
    /\ type_entries' = st.type_entries
    /\ block_data' = st.block_data
    /\ current_field' = IF st.exc = NoExc THEN current_field + n ELSE current_field
    /\ calls' = calls + Len(st.type_entries) - Len(type_entries)
    /\ ret' = Called("add_field", st.exc)

\* add_field, lines 112-113: the specs without ':'
Untyped(field_specs) == {i \in 1..Len(field_specs) : ~Contains(field_specs[i], <<":">>)}

\* add_field, lines 106-190, field_spec being split
AddFieldSpecs(field_specs, values) ==
    IF ~LineBudgetLeft
    THEN FieldRefused(Raise("AssertionError", <<"Too many lines added">>))
    ELSE IF Untyped(field_specs) # {}
    THEN FieldRefused(Raise("ValueError",
             <<"Field specification must include types",
               field_specs[Min(Untyped(field_specs))]>>))
    ELSE IF Len(values) # ExpectedValues(field_specs)
    THEN FieldRefused(Raise("ValueError",
             <<"Expected values", ExpectedValues(field_specs), Len(values)>>))
    ELSE FieldsAdded(AddSpecs([fields |-> fields, num_fields |-> num_fields,
                               type_entries |-> type_entries, block_data |-> block_data,
                               exc |-> NoExc],
                              field_specs, values, 0, 0, current_line, current_field),
                     Len(field_specs))

\* TextWriter.add_field
AddField(field_spec, values) ==
    /\ Running
    /\ AddFieldSpecs(SplitSpace(field_spec), values)
    /\ UNCHANGED <<fp, written, block_name, line_count, current_line, sections, result>>

\* the writer state w reached by add_end_line
LineEnded(w) ==
    /\ fields' = w.fields
    /\ current_line' = w.current_line
    /\ current_field' = w.current_field
    /\ written' = w.written
    /\ ret' = Called("add_end_line", w.exc)

\* TextWriter.add_end_line
AddEndLine ==
    /\ Running
    /\ LineEnded(EndLine(Writer))
    /\ UNCHANGED <<fp, block_name, line_count, num_fields, type_entries, block_data,
                   calls, sections, result>>

\* the outcome r of parse_file
Parsed(r) ==
    /\ sections' = r.sections
    /\ result' = IF r.exc = NoExc
                 THEN [status |-> "returned", value |-> r.sections]
                 ELSE [status |-> "raised", exc |-> r.exc]
    /\ ret' = Called("parse_file", r.exc)

\* parse_matx_file (matx_importer.py lines 22-23): a new TextParser reads the
\* closed file
ReadBack ==
    /\ fp = "None"
    /\ written # <<>>
    /\ result = NoResult
    /\ Parsed(ParseFile(sections, Flatten(written)))
    /\ UNCHANGED writerVars

\* the work left allows n more
WorkLeft(n) == calls + n <= MaxWork

\* add_end_line is called at most MaxExtraEnds times past the end of the section
EndsLeft == current_line <= line_count + MaxExtraEnds

Next ==
    \/ OpenFile
    \/ CloseFile
    \/ \E header_name \in SectionNames, count \in Counts :
          WorkLeft(2) /\ AddHeader(header_name, count)
    \/ \E field_spec \in FieldSpecInputs :
          \E values \in ValueInputs(field_spec) :
             WorkLeft(Len(values)) /\ AddField(field_spec, values)
    \/ EndsLeft /\ AddEndLine

\* the export alone
Spec == Init /\ [][Next]_vars

\* the export, then the import of the file it wrote
NextRoundTrip == Next \/ ReadBack
SpecRoundTrip == Init /\ [][NextRoundTrip]_vars

-----------------------------------------------------------------------------
(* The reader alone, on files made of a header line, a schema line, a separator
   line and body lines *)

\* body lines of a file
MaxDocLines == 2

\* " { x:d n:s }"
DocSchema == <<" ", "{", " ", "x", ":", "d", " ", "n", ":", "s", " ", "}", "\n">>
DocSeparator == <<"/", "/", " ", "-", "-", "-", " ", "-", "-", "-", " ", "\n">>

\* body lines that hold one row
RowLines ==
    { <<" ", " ", " ", "5", " ", QUOTE, "b", " ", "c", QUOTE, "\n">>,
      <<" ", " ", " ", "7", " ", QUOTE, "a", QUOTE, "\n">> }

\* body lines that hold no row: a comment, a blank line, a line with a leading '-'
OtherLines ==
    { <<"/", "/", " ", "n", "o", "t", "e", "\n">>,
      <<"\n">>,
      <<" ", " ", "-", "1", " ", QUOTE, "a", QUOTE, "\n">> }

RECURSIVE Bodies(_)
Bodies(n) ==
    IF n = 0 THEN {<<>>}
    ELSE LET shorter == Bodies(n - 1)
         IN  shorter \cup {Append(b, l) : b \in {c \in shorter : Len(c) = n - 1},
                                           l \in RowLines \cup OtherLines}

DocFiles ==
    {<<BlockName(<<"A">>, count), DocSchema, DocSeparator>> \o body :
        count \in Counts, body \in Bodies(MaxDocLines)}

InitReader ==
    /\ fp = "None"
    /\ written \in DocFiles
    /\ fields = <<>>
    /\ block_name = <<>>
    /\ line_count = 0
    /\ current_line = 0
    /\ current_field = 0
    /\ num_fields = 0
    /\ type_entries = <<>>
    /\ block_data = <<>>
    /\ ret = Called("__init__", NoExc)
    /\ calls = 0
    /\ sections = <<>>
    /\ result = NoResult

NextReader == ReadBack
SpecReader == InitReader /\ [][NextReader]_vars

-----------------------------------------------------------------------------
(* The reader on files of one section without a count and one body line *)

\* characters of a body line
MaxLineLen == 6

\* a blank, a double quote, a letter
TokenChars == {" ", QUOTE, "a"}

\* the texts of at most n characters
RECURSIVE Texts(_)
Texts(n) ==
    IF n = 0 THEN {<<>>}
    ELSE LET shorter == Texts(n - 1)
         IN  shorter \cup {Append(t, c) : t \in {u \in shorter : Len(u) = n - 1},
                                            c \in TokenChars}

\* " { n:sss }"
TokenSchema == <<" ", "{", " ", "n", ":", "s", "s", "s", " ", "}", "\n">>
\* " { Index:d Name:s }"
ExampleSchema == <<" ", "{", " ", "I", "n", "d", "e", "x", ":", "d", " ", "N", "a", "m", "e", ":", "s", " ", "}", "\n">>
\* '   5 "a value with spaces"'
ExampleLine ==
    <<" ", " ", " ", "5", " ", QUOTE, "a", " ", "v", "a", "l", "u", "e", " ", "w", "i", "t", "h", " ", "s", "p", "a", "c", "e", "s", QUOTE, "\n">>

TokenFiles ==
    {<<BlockName(<<"A">>, -1), TokenSchema, DocSeparator, Append(line, "\n")>> :
        line \in Texts(MaxLineLen)}
    \cup {<<BlockName(<<"A">>, -1), ExampleSchema, DocSeparator, ExampleLine>>}

InitTokens ==
    /\ fp = "None"
    /\ written \in TokenFiles
    /\ fields = <<>>
    /\ block_name = <<>>
    /\ line_count = 0
    /\ current_line = 0
    /\ current_field = 0
    /\ num_fields = 0
    /\ type_entries = <<>>
    /\ block_data = <<>>
    /\ ret = Called("__init__", NoExc)
    /\ calls = 0
    /\ sections = <<>>
    /\ result = NoResult

SpecTokens == InitTokens /\ [][NextReader]_vars

-----------------------------------------------------------------------------
(* One TextParser reading several files, each of one or two sections of one
   body line *)

\* parse_file calls on one parser
MaxParses == 2

DocNames == {<<"A">>, <<"B">>}

\* " { x }": a schema entry without ':'
BadSchema == <<" ", "{", " ", "x", " ", "}", "\n">>
\* "   5": a row without the String
ShortRow == <<" ", " ", " ", "5", "\n">>
\* '   x "a"': a row whose Integer is not a number
BadIntRow == <<" ", " ", " ", "x", " ", QUOTE, "a", QUOTE, "\n">>

\* sections that decode: the declared row under the schema x:d n:s
GoodSections ==
    {<<BlockName(name, 1), DocSchema, DocSeparator, row>> :
        name \in DocNames, row \in RowLines}

\* sections that do not: two rows declared and one held, a bad schema, a token
\* short, a conversion that fails
FailingSections ==
    {<<BlockName(<<"B">>, 2), DocSchema, DocSeparator, row>> : row \in RowLines}
    \cup {<<BlockName(<<"B">>, 1), BadSchema, DocSeparator, row>> : row \in RowLines}
    \cup {<<BlockName(<<"B">>, 1), DocSchema, DocSeparator, ShortRow>>,
          <<BlockName(<<"B">>, 1), DocSchema, DocSeparator, BadIntRow>>}

\* files of one section and of two
SectionFiles ==
    (GoodSections \cup FailingSections)
    \cup {first \o second : first \in GoodSections \cup FailingSections,
                            second \in GoodSections \cup FailingSections}

\* TextParser.parse_file on a file that holds doc, by the parser built at Init
ParseDoc(doc) ==
    /\ fp = "None"
    /\ written' = doc
    /\ Parsed(ParseFile(sections, Flatten(doc)))
    /\ calls' = calls + 1
    /\ UNCHANGED <<fp, fields, block_name, line_count, current_line, current_field,
                   num_fields, type_entries, block_data>>

NextParser == \E doc \in SectionFiles : calls < MaxParses /\ ParseDoc(doc)

SpecParser == Init /\ [][NextParser]_vars

-----------------------------------------------------------------------------
(* The reader on files whose headers, schema blocks and body lines take the
   shapes the parser tells apart *)

\* '   5 "b c"' and '   7 "a"'
Row5 == <<" ", " ", " ", "5", " ", QUOTE, "b", " ", "c", QUOTE, "\n">>
Row7 == <<" ", " ", " ", "7", " ", QUOTE, "a", QUOTE, "\n">>

\* '   5 "a': a row with one double quote
OddQuoteRow == <<" ", " ", " ", "5", " ", QUOTE, "a", "\n">>

\* '[ B ]', '[ B : 1 ]', and the headers '[ B', '[ B : ]', '[ B : x ]'
HeaderB == <<"[", " ", "B", " ", "]", "\n">>
HeaderB1 == <<"[", " ", "B", " ", ":", " ", "1", " ", "]", "\n">>
HeaderOpen == <<"[", " ", "B", "\n">>
HeaderNoCount == <<"[", " ", "B", " ", ":", " ", "]", "\n">>
HeaderBadCount == <<"[", " ", "B", " ", ":", " ", "x", " ", "]", "\n">>

SecondHeaders == {HeaderB, HeaderB1, HeaderOpen, HeaderNoCount, HeaderBadCount}

\* files of two sections, the second header after a row of the first, and files
\* of the second section alone
SplitFiles ==
    {<<BlockName(<<"A">>, -1), DocSchema, DocSeparator, row, header,
       DocSchema, DocSeparator, Row7>> :
        row \in {Row5, OddQuoteRow}, header \in SecondHeaders}
    \cup {<<header, DocSchema, DocSeparator, Row7>> : header \in SecondHeaders}

\* body lines with comments: '   5 "a" /* c */', '/* c */', '   5 "a" /* c',
\* ' d */', ' d */ 7 "a"', '   5 "a/*b"', '   5 "a*/b"', '   5 // "a"',
\* '   5 "a" // c', '   5 //', '   5 "a//b"', '// note'
BlockCommentAfterRow == <<" ", " ", " ", "5", " ", QUOTE, "a", QUOTE, " ", "/", "*", " ", "c", " ", "*", "/", "\n">>
BlockCommentLine == <<"/", "*", " ", "c", " ", "*", "/", "\n">>
BlockCommentOpens == <<" ", " ", " ", "5", " ", QUOTE, "a", QUOTE, " ", "/", "*", " ", "c", "\n">>
BlockCommentCloses == <<" ", "d", " ", "*", "/", "\n">>
BlockCommentThenRow == <<" ", "d", " ", "*", "/", " ", "7", " ", QUOTE, "a", QUOTE, "\n">>
BlockOpenInString == <<" ", " ", " ", "5", " ", QUOTE, "a", "/", "*", "b", QUOTE, "\n">>
BlockCloseInString == <<" ", " ", " ", "5", " ", QUOTE, "a", "*", "/", "b", QUOTE, "\n">>
LineCommentBeforeValue == <<" ", " ", " ", "5", " ", "/", "/", " ", QUOTE, "a", QUOTE, "\n">>
LineCommentAfterRow == <<" ", " ", " ", "5", " ", QUOTE, "a", QUOTE, " ", "/", "/", " ", "c", "\n">>
LineCommentForValue == <<" ", " ", " ", "5", " ", "/", "/", "\n">>
LineCommentInString == <<" ", " ", " ", "5", " ", QUOTE, "a", "/", "/", "b", QUOTE, "\n">>
LineCommentLine == <<"/", "/", " ", "n", "o", "t", "e", "\n">>

CommentLines ==
    {Row5, Row7, BlockCommentAfterRow, BlockCommentLine, BlockCommentOpens,
     BlockCommentCloses, BlockCommentThenRow, BlockOpenInString, BlockCloseInString,
     LineCommentBeforeValue, LineCommentAfterRow, LineCommentForValue,
     LineCommentInString, LineCommentLine}

\* the bodies of at most n lines, and at least one, drawn from lines
RECURSIVE BodiesOf(_, _)
BodiesOf(lines, n) ==
    IF n = 0 THEN {}
    ELSE BodiesOf(lines, n - 1)
         \cup {<<l>> : l \in lines}
         \cup {Append(b, l) : b \in {c \in BodiesOf(lines, n - 1) : Len(c) = n - 1},
                               l \in lines}

CommentFiles ==
    {<<BlockName(<<"A">>, -1), DocSchema, DocSeparator>> \o body :
        body \in BodiesOf(CommentLines, MaxDocLines)}

\* schema blocks on two lines and on three: ' { x:d' ' n:s }', and ' {' ' x:d n:s'
\* ' }'
SchemaOnTwoLines ==
    <<<<" ", "{", " ", "x", ":", "d", "\n">>,
      <<" ", "n", ":", "s", " ", "}", "\n">>>>
SchemaOnThreeLines ==
    <<<<" ", "{", "\n">>,
      <<" ", "x", ":", "d", " ", "n", ":", "s", "\n">>,
      <<" ", "}", "\n">>>>

\* schema lines ' { x n:s }', ' { x: n:s }', ' { x:d, n:s }', ' { x:d n }',
\* ' { x:d n: }', ' { x:dn:s }', ' { x:q n:s }'
SchemaNoColonFirst == <<" ", "{", " ", "x", " ", "n", ":", "s", " ", "}", "\n">>
SchemaNoTypesFirst == <<" ", "{", " ", "x", ":", " ", "n", ":", "s", " ", "}", "\n">>
SchemaCommas == <<" ", "{", " ", "x", ":", "d", ",", " ", "n", ":", "s", " ", "}", "\n">>
SchemaNoColonLast == <<" ", "{", " ", "x", ":", "d", " ", "n", " ", "}", "\n">>
SchemaNoTypesLast == <<" ", "{", " ", "x", ":", "d", " ", "n", ":", " ", "}", "\n">>
SchemaRunTogether == <<" ", "{", " ", "x", ":", "d", "n", ":", "s", " ", "}", "\n">>
SchemaBadType == <<" ", "{", " ", "x", ":", "q", " ", "n", ":", "s", " ", "}", "\n">>

SchemaBlocks ==
    {<<DocSchema>>, SchemaOnTwoLines, SchemaOnThreeLines}
    \cup {<<line>> : line \in {SchemaNoColonFirst, SchemaNoTypesFirst, SchemaCommas,
                                SchemaNoColonLast, SchemaNoTypesLast, SchemaRunTogether,
                                SchemaBadType}}

SchemaFiles ==
    {<<BlockName(<<"A">>, -1)>> \o block \o <<DocSeparator, row>> :
        block \in SchemaBlocks, row \in {Row5, ShortRow}}

\* " { v:dd n:s }": a field of two components, then one of one
WideSchema == <<" ", "{", " ", "v", ":", "d", "d", " ", "n", ":", "s", " ", "}", "\n">>

\* rows of 1, 2, 3 and 4 tokens: '   5', '   5 6', '   5 6 "a"', '   5 6 "a" 7'
TokenRows ==
    { ShortRow,
      <<" ", " ", " ", "5", " ", "6", "\n">>,
      <<" ", " ", " ", "5", " ", "6", " ", QUOTE, "a", QUOTE, "\n">>,
      <<" ", " ", " ", "5", " ", "6", " ", QUOTE, "a", QUOTE, " ", "7", "\n">> }

ShortageFiles ==
    {<<BlockName(<<"A">>, -1), WideSchema, DocSeparator>> \o body :
        body \in BodiesOf(TokenRows, MaxDocLines)}

BodyFiles == SplitFiles \cup CommentFiles \cup SchemaFiles \cup ShortageFiles

InitBody ==
    /\ fp = "None"
    /\ written \in BodyFiles
    /\ fields = <<>>
    /\ block_name = <<>>
    /\ line_count = 0
    /\ current_line = 0
    /\ current_field = 0
    /\ num_fields = 0
    /\ type_entries = <<>>
    /\ block_data = <<>>
    /\ ret = Called("__init__", NoExc)
    /\ calls = 0
    /\ sections = <<>>
    /\ result = NoResult

SpecBody == InitBody /\ [][NextReader]_vars

-----------------------------------------------------------------------------
(* The export of one long section: one Integer field, every line complete *)

\* the longest section
MaxLines == 200

\* the declared counts: around the first and the second 80-line boundary, and
\* the longest
LongCounts ==
    {HeaderEvery, HeaderEvery + HeaderMinLeft - 1, HeaderEvery + HeaderMinLeft,
     2 * HeaderEvery + HeaderMinLeft - 1, MaxLines}

LongSpec == <<"x", ":", "d">>
LongValues == <<IntV(100)>>

NextLong ==
    \/ OpenFile
    \/ \E count \in LongCounts : ret.op = "open_file" /\ AddHeader(<<"A">>, count)
    \/ current_field = 0 /\ AddField(LongSpec, LongValues)
    \/ current_field = 1 /\ AddEndLine
    \/ CloseFile

SpecLong == Init /\ [][NextLong]_vars

-----------------------------------------------------------------------------
(* The export of a section of Guid fields, every line complete *)

\* one Guid, two Guids
GuidSpecInputs == { <<"g", ":", "g">>, <<"g", ":", "g", "g">> }

NextGuid ==
    \/ OpenFile
    \/ \E count \in {1, 2} : ret.op = "open_file" /\ AddHeader(<<"A">>, count)
    \/ \E field_spec \in GuidSpecInputs :
          \E values \in Tuples(TypeChars(SplitSpace(field_spec))) :
             current_field = 0 /\ AddField(field_spec, values)
    \/ current_field = 1 /\ AddEndLine
    \/ CloseFile

SpecGuid == Init /\ [][NextGuid]_vars

-----------------------------------------------------------------------------
(* Properties: what they read of a state *)

\* the last call flushed the section and returned
JustFlushed ==
    /\ ret.op \in {"add_end_line", "add_header"}
    /\ ret.exc = NoExc
    /\ LastLine(line_count, current_line)

\* the components of all the fields
Components(fs) == Sum([f \in 1..Len(fs) |-> Len(fs[f].types)])

\* the writes of one data line of a short section: the indent, the fields with a
\* space between them, the line end
ChunksPerLine == IF fields = <<>> THEN 2 ELSE 2 * Len(fields) + 1

\* the writes of a short section (no repeated header): name, schema, separator,
\* the data lines, the blank line
SectionChunks == 4 + line_count * ChunksPerLine

\* the writes of the section flushed last
LastSection == SubSeq(written, Len(written) - SectionChunks + 1, Len(written))

\* the text written for field f of data line l (both from 1)
FieldText(l, f) == LastSection[3 + (l - 1) * ChunksPerLine + 2 * f]

\* the entry of component t of field f of line l (all from 1), every line
\* holding every field
EntryOf(l, f, t) ==
    type_entries[(l - 1) * Components(fields)
                 + Sum([g \in 1..(f - 1) |-> Len(fields[g].types)]) + t]

\* a numeric value, and a negative one
IsNumeric(entry) == entry.is_digit
IsNegative(entry) == entry.is_digit /\ entry.value[1] = "-"

\* every line of the section holds every field of the first line
Complete ==
    /\ line_count > 0
    /\ current_line = line_count
    /\ fields # <<>>
    /\ Len(type_entries) = line_count * Components(fields)

-----------------------------------------------------------------------------
(* C1: round trip *)

\* the value read is the value written: of the same type, with the same text
\* (a Float to 6 decimals)
SameValue(data_type, read, entry) ==
    /\ read.k = (CASE data_type = "INTEGER" -> "int"
                   [] data_type = "FLOAT" -> "float"
                   [] OTHER -> "str")
    /\ Render(data_type, read).value = entry.value

\* the cell read for field f of line l holds the values written there: one value
\* for a field of one component, a list otherwise
SameCell(cell, l, f) ==
    IF Len(fields[f].types) = 1
    THEN SameValue(fields[f].types[1], cell, EntryOf(l, f, 1))
    ELSE /\ Len(cell) = Len(fields[f].types)
         /\ \A t \in 1..Len(fields[f].types) :
               SameValue(fields[f].types[t], cell[t], EntryOf(l, f, t))

\* the section read is the section written
SameSection(section) ==
    /\ Len(section.fields) = Len(fields)
    /\ \A f \in 1..Len(fields) :
          /\ section.fields[f].name = fields[f].name
          /\ Len(section.fields[f].types) = Len(fields[f].types)
    /\ Len(section.data) = line_count
    /\ \A l \in 1..Len(section.data) :
          /\ Len(section.data[l]) = Len(fields)
          /\ \A f \in 1..Len(fields) : SameCell(section.data[l][f], l, f)

\* C1: a file that holds one section written with add_header(name, N), N > 0,
\* and N lines that each supply every field, is read back as a section of that
\* name with the same fields and the same N rows
RoundTrip ==
    (result.status # "none" /\ Complete /\ Len(written) = SectionChunks) =>
        /\ result.status = "returned"
        /\ \A header_name \in SectionNames :
              block_name = BlockName(header_name, line_count) =>
                 /\ header_name \in DOMAIN result.value
                 /\ SameSection(result.value[header_name])

-----------------------------------------------------------------------------
(* C2: column alignment *)

\* C2: in a flushed section the text of every field has the same width on every
\* data line, at least the length of the field's header spec
ColumnsAligned ==
    (JustFlushed /\ line_count > 0) =>
        \A f \in 1..Len(fields) : \A l \in 1..line_count :
           /\ Len(FieldText(l, f)) = Len(FieldText(1, f))
           /\ Len(FieldText(l, f)) >= Len(fields[f].full_spec)

-----------------------------------------------------------------------------
(* C3: sign padding *)

\* some row holds a negative value at component t of field f
ColumnNegative(f, t) == \E l \in 1..line_count : IsNegative(EntryOf(l, f, t))

\* the sign column the value at (l, f, t) is to get
SignOf(l, f, t) ==
    IF IsNumeric(EntryOf(l, f, t)) /\ ~IsNegative(EntryOf(l, f, t)) /\ ColumnNegative(f, t)
    THEN <<" ">> ELSE <<>>

\* the value at (l, f, t) behind its sign column
ValueText(l, f, t) == SignOf(l, f, t) \o EntryOf(l, f, t).value

\* where the text of component t starts in the text of its field: each component
\* before it takes its column's width, or its own length when that is longer, and
\* one separating space
RECURSIVE OffsetOf(_, _, _)
OffsetOf(l, f, t) ==
    IF t = 1 THEN 0
    ELSE OffsetOf(l, f, t - 1)
         + Max({Len(ValueText(l, f, t - 1)), fields[f].type_widths[t - 1]}) + 1

\* C3: at flush a non-negative numeric value is written behind exactly one space
\* when some row holds a negative value at its position, whether that row was
\* added before or after; every other value is written without such a space
SignPadded ==
    (JustFlushed /\ line_count > 0) =>
        \A l \in 1..line_count : \A f \in 1..Len(fields) :
           \A t \in 1..Len(fields[f].types) :
              /\ SubSeq(FieldText(l, f), OffsetOf(l, f, t) + 1,
                        OffsetOf(l, f, t) + Len(ValueText(l, f, t))) = ValueText(l, f, t)
              /\ (t > 1 => FieldText(l, f)[OffsetOf(l, f, t)] = " ")

\* a flushed section whose first row holds a non-negative number, written behind
\* one space, where the second row holds a negative one; and whose second row
\* holds a non-negative number, written behind one space, where the first row
\* holds a negative one is reached separately (SignPaddedAfter)
SignPaddedBefore ==
    /\ JustFlushed
    /\ line_count = 2
    /\ \E f \in 1..Len(fields) :
          /\ IsNumeric(EntryOf(1, f, 1)) /\ ~IsNegative(EntryOf(1, f, 1))
          /\ IsNegative(EntryOf(2, f, 1))
          /\ FieldText(1, f)[1] = " "
          /\ FieldText(1, f)[2] # " "

\* the same with the rows added in the other order
SignPaddedAfter ==
    /\ JustFlushed
    /\ line_count = 2
    /\ \E f \in 1..Len(fields) :
          /\ IsNegative(EntryOf(1, f, 1))
          /\ IsNumeric(EntryOf(2, f, 1)) /\ ~IsNegative(EntryOf(2, f, 1))
          /\ FieldText(2, f)[1] = " "
          /\ FieldText(2, f)[2] # " "

-----------------------------------------------------------------------------
(* C4: write-side count enforcement *)

\* C4: add_header or close_file on a section of declared count N > 0 of which
\* fewer than N lines are closed raises, and writes nothing
WriteCountEnforced ==
    [][(/\ fp = "open"
        /\ line_count > 0
        /\ current_line < line_count
        /\ ret'.op \in {"add_header", "close_file"})
       => (ret'.exc # NoExc /\ written' = written)]_vars

-----------------------------------------------------------------------------
(* C5: read-side count enforcement *)

\* the body lines of the file that hold a row
RowsInFile == Cardinality({i \in 4..Len(written) : written[i] \in RowLines})

\* C5: the file of a section that declares a count N is read with an error that
\* holds N and the number of rows when the two differ, and is read without error
\* when they are equal; the file of a section whose header has no ':' is read
\* without error whatever the number of its rows
ReadCountEnforced ==
    result.status # "none" =>
        \A count \in Counts :
           written[1] = BlockName(<<"A">>, count) =>
              IF count >= 0 /\ RowsInFile # count
              THEN /\ result.status = "raised"
                   /\ result.exc = Raise("ValueError",
                          <<"Unexpected dimension in section", <<"A">>, count, RowsInFile>>)
              ELSE /\ result.status = "returned"
                   /\ Len(result.value[<<"A">>].data) = RowsInFile
                   /\ result.value[<<"A">>].count = (IF count >= 0 THEN <<count>> ELSE <<>>)

\* a file that declares 2 rows and holds 1 was read with the error
ReadCountMismatch ==
    /\ written[1] = BlockName(<<"A">>, 2)
    /\ RowsInFile = 1
    /\ result.status = "raised"
    /\ result.exc.msg = <<"Unexpected dimension in section", <<"A">>, 2, 1>>

-----------------------------------------------------------------------------
(* C6: deferred flush *)

\* the writes of the step are a whole section of count data lines: the name line,
\* the schema line, the separator, the data lines (an indent first, a line end
\* last), the blank line
WholeSectionWritten(count) ==
    /\ ret'.exc = NoExc
    /\ Len(written') = Len(written) + 4 + count * ChunksPerLine
    /\ written'[Len(written) + 1] = block_name
    /\ written'[Len(written) + 2] = HeaderLine(fields')
    /\ written'[Len(written) + 3] = SeparatorLine(fields')
    /\ \A l \in 1..count :
          /\ written'[Len(written) + 3 + (l - 1) * ChunksPerLine + 1] = <<" ", " ", " ">>
          /\ written'[Len(written) + 3 + l * ChunksPerLine] = <<"\n">>
    /\ written'[Len(written')] = <<"\n">>

\* C6: in a section of declared count N > 0, add_field and the first N-1
\* add_end_line calls write nothing, and the N-th add_end_line writes the whole
\* section
DeferredFlush ==
    [][(fp = "open" /\ line_count > 0) =>
          /\ (ret'.op = "add_field" => written' = written)
          /\ (ret'.op = "add_end_line" /\ current_line + 1 < line_count
                => written' = written)
          /\ (ret'.op = "add_end_line" /\ current_line + 1 = line_count
                => WholeSectionWritten(line_count))]_vars

-----------------------------------------------------------------------------
(* C7: line budget *)

\* C7: add_field on a section whose closed lines are as many as its declared
\* count, or more, raises "Too many lines added" and accepts no value
LineBudget ==
    [][(ret'.op = "add_field" /\ current_line >= line_count) =>
          /\ ret'.exc = Raise("AssertionError", <<"Too many lines added">>)
          /\ type_entries' = type_entries
          /\ fields' = fields]_vars

\* add_field was refused on a section of 2 lines, both closed
LineBudgetSpent ==
    /\ ret = Called("add_field", Raise("AssertionError", <<"Too many lines added">>))
    /\ line_count = 2
    /\ current_line = 2

-----------------------------------------------------------------------------
(* C8: schema mismatch on a later line *)

\* the k-th spec of field_specs, at its position after current_field, disagrees
\* with the first line: no field there, another name, another number of components
Disagrees(field_specs, k) ==
    /\ Contains(field_specs[k], <<":">>)
    /\ \/ current_field + k > Len(fields)
       \/ fields[current_field + k].name # SplitOnce(field_specs[k], <<":">>)[1]
       \/ Len(fields[current_field + k].types) # Len(SplitOnce(field_specs[k], <<":">>)[2])

\* C8: on a line after the first, add_field raises ValueError when one of its
\* specs names another field than the first line's field at its position, has
\* another number of type characters than that field has components, or lies
\* beyond the first line's fields
SchemaEnforced ==
    [][\A field_spec \in FieldSpecInputs : \A values \in ValueInputs(field_spec) :
          (/\ ret'.op = "add_field"
           /\ current_line > 0
           /\ current_line < line_count
           /\ \E k \in 1..Len(SplitSpace(field_spec)) : Disagrees(SplitSpace(field_spec), k)
           /\ AddField(field_spec, values))
          => ret'.exc.type = "ValueError"]_vars

\* add_field was refused on the second line for the number of type characters
\* of its spec
SchemaArityRefused ==
    /\ ret.op = "add_field"
    /\ current_line = 1
    /\ ret.exc.type = "ValueError"
    /\ ret.exc.msg[1] = "Expected values for field"

-----------------------------------------------------------------------------
(* C9: incomplete later line *)

\* C9: add_end_line on a line after the first that supplied fewer fields than the
\* first line defined raises
IncompleteLineReported ==
    [][(/\ ret'.op = "add_end_line"
        /\ fp = "open"
        /\ current_line > 0
        /\ current_line < line_count
        /\ current_field < Len(fields))
       => ret'.exc # NoExc]_vars

-----------------------------------------------------------------------------
(* C10: header repetition *)

\* the header-spec comment lines among the writes: '//' lines that are not
\* separators
HeaderComments ==
    {i \in 1..Len(written) :
        /\ StartsWith(written[i], <<"/", "/", " ">>)
        /\ written[i] # SeparatorLine(fields)}

\* the data lines written before write i
DataLinesBefore(i) == Cardinality({j \in 1..(i - 1) : written[j] = <<" ", " ", " ">>})

\* the data lines after which a header block is written
BlocksAfter == {DataLinesBefore(i) : i \in HeaderComments}

\* C10: in the only section of a file, a header block is a separator, the header
\* specs behind '//' and a separator, written right after a data line; with a
\* declared count of 200 the blocks follow data lines 80 and 160 and no other;
\* with any declared count a block follows only a multiple of 80 data lines
\* after which no fewer than 10 remain
HeaderRepeated ==
    (JustFlushed /\ line_count > 0) =>
        /\ DataLinesBefore(Len(written)) = line_count
        /\ \A i \in HeaderComments :
              /\ written[i] = HeaderComment(fields)
              /\ written[i - 1] = SeparatorLine(fields)
              /\ written[i + 1] = SeparatorLine(fields)
              /\ written[i - 2] = <<"\n">>
        /\ Cardinality(HeaderComments) = Cardinality(BlocksAfter)
        /\ (line_count = 200 => BlocksAfter = {80, 160})
        /\ \A k \in BlocksAfter : k % 80 = 0 /\ ~(line_count - k < 10)

\* a section of 200 lines is flushed with its two header blocks
HeaderRepeatedTwice ==
    /\ JustFlushed
    /\ line_count = 200
    /\ BlocksAfter = {80, 160}

-----------------------------------------------------------------------------
\* the 16 hexadecimal digits of a value below 2^64
Padded16(v) == [i \in 1..(16 - Len(v)) |-> 0] \o v

\* the text the Guid encoding asks for: the high 8 digits, ':', the low 8
\* digits, in double quotes
GuidExpected(value) ==
    IF value.k = "str" THEN <<QUOTE>> \o value.v \o <<QUOTE>>
    ELSE <<QUOTE>> \o [i \in 1..8 |-> HexDigit[Padded16(value.digits)[i] + 1]] \o <<":">>
         \o [i \in 1..8 |-> HexDigit[Padded16(value.digits)[i + 8] + 1]] \o <<QUOTE>>

\* the value is a text or an int in 0..2^64-1
GuidInRange(value) == value.k = "str" \/ Len(value.digits) <= 16

\* C11: every int in 0..2^64-1 given to a Guid component is rendered as a
\* double quote, its high 32 bits as 8 uppercase hexadecimal digits, ':', its
\* low 32 bits as 8 uppercase hexadecimal digits and a double quote; a text is
\* rendered in double quotes
GuidEncoded ==
    [][\A field_spec \in GuidSpecInputs :
         \A values \in Tuples(TypeChars(SplitSpace(field_spec))) :
            (AddField(field_spec, values) /\ ret'.exc = NoExc)
            => \A j \in 1..Len(values) :
                  GuidInRange(values[j])
                  => type_entries'[Len(type_entries) + j].value = GuidExpected(values[j])]_vars

\* add_field has rendered 0x0123456789ABCDEF
GuidRendered ==
    /\ ret = Called("add_field", NoExc)
    /\ \E i \in 1..Len(type_entries) :
          type_entries[i].value =
             <<QUOTE, "0", "1", "2", "3", "4", "5", "6", "7", ":",
               "8", "9", "A", "B", "C", "D", "E", "F", QUOTE>>

-----------------------------------------------------------------------------
(* C12: quote-aware tokenization *)

\* the body line of the file as the tokenizer gets it
BodyLine == Strip(SubSeq(written[4], 1, Len(written[4]) - 1))

\* character i of the line lies inside double quotes: an odd number of double
\* quotes precede it
Quoted(line, i) == Cardinality({j \in 1..(i - 1) : line[j] = QUOTE}) % 2 = 1

\* character i is whitespace outside double quotes
Separates(line, i) == IsSpace(line[i]) /\ ~Quoted(line, i)

\* the spans of the line between whitespace outside double quotes
TokenSpans(line) ==
    {p \in (1..Len(line)) \X (1..Len(line)) :
        /\ p[1] <= p[2]
        /\ \A i \in p[1]..p[2] : ~Separates(line, i)
        /\ p[1] = 1 \/ Separates(line, p[1] - 1)
        /\ p[2] = Len(line) \/ Separates(line, p[2] + 1)}

\* the texts of the spans, from left to right
ExpectedTokens(line) ==
    [k \in 1..Cardinality(TokenSpans(line)) |->
        LET p == CHOOSE q \in TokenSpans(line) :
                    Cardinality({r \in TokenSpans(line) : r[1] < q[1]}) = k - 1
        IN  SubSeq(line, p[1], p[2])]

\* the token is wrapped in double quotes
Wrapped(token) == Len(token) >= 2 /\ token[1] = QUOTE /\ token[Len(token)] = QUOTE

\* the value read for component t of field f of a row
CellOf(fs, row, f, t) == IF Len(fs[f].types) = 1 THEN row[f] ELSE row[f][t]

\* the token that component t of field f consumes
TokenOf(fs, tokens, f, t) == tokens[Sum([g \in 1..(f - 1) |-> Len(fs[g].types)]) + t]

\* C12: a data line is split into tokens at the whitespace outside double
\* quotes only, whitespace inside double quotes stays in its token, and a String
\* component whose token is wrapped in double quotes is read as the text between
\* the quotes
QuoteAwareTokens ==
    /\ Tokenize(BodyLine) = ExpectedTokens(BodyLine)
    /\ result.status = "returned" =>
          \A l \in 1..Len(result.value[<<"A">>].data) :
             \A f \in 1..Len(result.value[<<"A">>].fields) :
                \A t \in 1..Len(result.value[<<"A">>].fields[f].types) :
                   (/\ result.value[<<"A">>].fields[f].types[t] = "STRING"
                    /\ Wrapped(TokenOf(result.value[<<"A">>].fields,
                                       ExpectedTokens(BodyLine), f, t)))
                   => CellOf(result.value[<<"A">>].fields, result.value[<<"A">>].data[l], f, t)
                      = StrV(SubSeq(TokenOf(result.value[<<"A">>].fields,
                                            ExpectedTokens(BodyLine), f, t), 2,
                                    Len(TokenOf(result.value[<<"A">>].fields,
                                                ExpectedTokens(BodyLine), f, t)) - 1))

\* the line 5 "a value with spaces" was read under Index:d Name:s
QuotedSpacesRead ==
    /\ written[4] = ExampleLine
    /\ result.status = "returned"
    /\ result.value[<<"A">>].data =
          << <<IntV(5), StrV(<<"a", " ", "v", "a", "l", "u", "e", " ", "w", "i", "t", "h", " ", "s", "p", "a", "c", "e", "s">>)>> >>

-----------------------------------------------------------------------------
(* C13: the reader keeps no state between calls *)

\* the names of the sections of a file
NamesIn(doc) ==
    {name \in DocNames :
        \E i \in 1..Len(doc) : doc[i] \in {BlockName(name, 1), BlockName(name, 2)}}

\* C13: what parse_file returns depends on the text of the file alone: it holds
\* the sections of the file parsed, and no section of a file parsed before by
\* the same TextParser
ReaderStateless ==
    result.status = "returned" => DOMAIN result.value = NamesIn(written)

-----------------------------------------------------------------------------
(* C14: a decode failure is reported before any result is returned *)

\* the k-th section of a file (from 0)
SectionAt(doc, k) == SubSeq(doc, 4 * k + 1, 4 * k + 4)

\* the sections of a file
SectionsOf(doc) == 0..((Len(doc) \div 4) - 1)

\* C14: when a section of the file fails to decode, parse_file raises and
\* returns nothing, also when sections before it decoded
DecodeFailureRaised ==
    (/\ result.status # "none"
     /\ \E k \in SectionsOf(written) : SectionAt(written, k) \in FailingSections)
    => result.status = "raised" /\ ret.exc # NoExc

\* a file whose first section decodes and whose second does not was parsed
FailedAfterGood ==
    /\ Len(written) = 8
    /\ SectionAt(written, 0) \in GoodSections
    /\ SectionAt(written, 1) \in FailingSections
    /\ result.status = "raised"

-----------------------------------------------------------------------------
(* C16: last write wins *)

\* the row a body line of RowLines holds
RowOf(line) ==
    IF line[4] = "5" THEN <<IntV(5), StrV(<<"b", " ", "c">>)>>
    ELSE <<IntV(7), StrV(<<"a">>)>>

\* the sections of the file that bear the name
Named(doc, name) ==
    {k \in SectionsOf(doc) : doc[4 * k + 1] \in {BlockName(name, 1), BlockName(name, 2)}}

\* C16: the result maps each name of the file to the section of that name that
\* comes last in the text
LastWriteWins ==
    result.status = "returned" =>
       \A name \in NamesIn(written) :
          /\ name \in DOMAIN result.value
          /\ result.value[name].name = name
          /\ result.value[name].data = <<RowOf(written[4 * Max(Named(written, name)) + 4])>>

\* a file of two sections of one name and different rows was parsed
SameNameTwice ==
    /\ Len(written) = 8
    /\ written[1] = written[5]
    /\ written[4] # written[8]
    /\ result.status = "returned"
    /\ result.value[<<"A">>].data = <<RowOf(written[8])>>

-----------------------------------------------------------------------------
(* C15: no partial section on the stream *)

\* C15: a call of the writer writes nothing or a whole section: the name line
\* first, a data line for each declared line, the blank line last; a call that
\* raises has written nothing
SectionNeverPartial ==
    [][(ret'.op \in {"add_header", "add_field", "add_end_line"})
       => \/ written' = written
          \/ /\ ret'.exc = NoExc
             /\ written'[Len(written) + 1] = block_name'
             /\ written'[Len(written')] = <<"\n">>
             /\ Cardinality({i \in (Len(written) + 1)..Len(written') :
                                written'[i] = <<" ", " ", " ">>}) = line_count']_vars

-----------------------------------------------------------------------------
(* C17: unknown row budget *)

\* C17: in a section opened without a count, whose lines so far each hold every
\* field, add_field is never refused for the number of lines added
UnknownBudgetGrows ==
    [][(/\ fp = "open"
        /\ block_name \in {BlockName(header_name, -1) : header_name \in SectionNames}
        /\ current_field = 0
        /\ current_line > 0 => (/\ fields # <<>>
                                /\ Len(type_entries) = current_line * Components(fields))
        /\ ret'.op = "add_field")
       => ret'.exc # Raise("AssertionError", <<"Too many lines added">>)]_vars

-----------------------------------------------------------------------------
(* C18: closed session *)

\* C18: once the section is flushed, add_field and add_end_line raise and write
\* nothing until the next add_header
ClosedSessionRejects ==
    [][(/\ fp = "open"
        /\ block_name # <<>>
        /\ current_line >= line_count
        /\ ret.exc = NoExc
        /\ ret'.op \in {"add_field", "add_end_line"})
       => ret'.exc # NoExc /\ written' = written]_vars

-----------------------------------------------------------------------------
(* C19: header repetition threshold *)

\* C19: the header block follows data line k, a multiple of 80, exactly when
\* more than 10 data lines remain after it
HeaderThreshold ==
    (JustFlushed /\ line_count > 0) =>
        \A k \in 1..line_count :
           k % 80 = 0 => (k \in BlocksAfter <=> line_count - k > 10)

\* C19, amended: the header block follows data line k, a multiple of 80, exactly
\* when at least 10 data lines remain after it
HeaderThresholdAtLeast ==
    (JustFlushed /\ line_count > 0) =>
        \A k \in 1..line_count :
           k % 80 = 0 => (k \in BlocksAfter <=> line_count - k >= 10)

\* a section of 90 lines is flushed with a header block after line 80, 10 lines
\* before its end
HeaderRepeatedTenLeft ==
    /\ JustFlushed
    /\ line_count = 90
    /\ BlocksAfter = {80}

-----------------------------------------------------------------------------
(* C20: zero-count section *)

\* the section of add_header(name, 0) was flushed by that call
ZeroFlushed ==
    /\ line_count = 0
    /\ block_name \in {BlockName(header_name, 0) : header_name \in SectionNames}
    /\ current_line = 1

\* C20: add_header(name, 0) writes the name line with the count 0, a schema
\* line without fields, a separator line without dashes and a blank line, and
\* add_field raises from then on
ZeroCountSection ==
    [][/\ \A header_name \in SectionNames :
             AddHeader(header_name, 0)
             => /\ ret'.exc = NoExc
                /\ written' = written \o <<BlockName(header_name, 0),
                                             <<" ", "{", " ", " ", "}", "\n">>,
                                             <<"/", "/", " ", " ", "\n">>,
                                             <<"\n">> >>
       /\ (fp = "open" /\ ZeroFlushed /\ ret'.op = "add_field")
          => ret'.exc.type = "AssertionError" /\ written' = written]_vars

\* add_field was refused after add_header(name, 0) had written the section
ZeroCountClosed ==
    /\ ZeroFlushed
    /\ ret = Called("add_field", Raise("AssertionError", <<"Too many lines added">>))
    /\ Len(written) = 4
    /\ written[2] = <<" ", "{", " ", " ", "}", "\n">>

-----------------------------------------------------------------------------
(* C21: section splitting *)

\* the lines after the name, schema and separator lines of the first section
BodyOf(doc) == SubSeq(doc, 4, Len(doc))

\* the file begins with the section A under the schema line
SectionUnder(doc, schema) ==
    /\ Len(doc) >= 3
    /\ doc[1] = BlockName(<<"A">>, -1)
    /\ doc[2] = schema
    /\ doc[3] = DocSeparator

\* the file holds the section A with one row and, after it, a section B with a
\* well-formed header
TwoSections(doc) ==
    /\ Len(doc) = 8
    /\ SectionUnder(doc, DocSchema)
    /\ doc[5] \in {HeaderB, HeaderB1}

\* C21: a well-formed header line opens a new section whatever the number of
\* double quotes of the line before it: the file of two sections is read as
\* the sections A and B, the row before the header in A and the row after it
\* in B
SectionsSplit ==
    (result.status # "none" /\ TwoSections(written))
    => /\ result.status = "returned"
       /\ DOMAIN result.value = {<<"A">>, <<"B">>}
       /\ Len(result.value[<<"A">>].data) = 1
       /\ result.value[<<"B">>].data = <<RowOf(Row7)>>

-----------------------------------------------------------------------------
(* C22: block comments *)

\* the rows '5 "a"' and '7 "a"'
RowFiveA == <<IntV(5), StrV(<<"a">>)>>
RowSevenA == <<IntV(7), StrV(<<"a">>)>>

\* the body lines whose block comments stand outside strings
BlockLines ==
    {Row5, Row7, BlockCommentAfterRow, BlockCommentLine, BlockCommentOpens,
     BlockCommentCloses, BlockCommentThenRow}

\* the line leaves a block comment open
OpensComment(line, open) ==
    IF line = BlockCommentOpens THEN TRUE
    ELSE IF line \in {Row5, Row7} THEN open
    ELSE FALSE

\* the rows the line holds outside block comments
RowsOutside(line, open) ==
    IF line = BlockCommentThenRow THEN <<RowSevenA>>
    ELSE IF open \/ line \in {BlockCommentLine, BlockCommentCloses} THEN <<>>
    ELSE IF line \in {BlockCommentAfterRow, BlockCommentOpens} THEN <<RowFiveA>>
    ELSE <<RowOf(line)>>

RECURSIVE UncommentedRows(_, _, _)
\* the rows of the body from line i on, once the text between each '/*' and
\* the '*/' that matches it is removed
UncommentedRows(body, i, open) ==
    IF i > Len(body) THEN <<>>
    ELSE RowsOutside(body[i], open)
         \o UncommentedRows(body, i + 1, OpensComment(body[i], open))

RECURSIVE CommentsMatched(_, _, _)
\* every '*/' of the body from line i on closes a comment that is open
CommentsMatched(body, i, open) ==
    IF i > Len(body) THEN TRUE
    ELSE /\ body[i] \in {BlockCommentCloses, BlockCommentThenRow} => open
         /\ CommentsMatched(body, i + 1, OpensComment(body[i], open))

\* C22: the rows read from a body with block comments are the rows of its text
\* outside the comments, those of the lines after a comment that opens and
\* closes on one line included
BlockCommentsRemoved ==
    (/\ result.status # "none"
     /\ SectionUnder(written, DocSchema)
     /\ \A i \in 1..Len(BodyOf(written)) : BodyOf(written)[i] \in BlockLines
     /\ CommentsMatched(BodyOf(written), 1, FALSE))
    => /\ result.status = "returned"
       /\ result.value[<<"A">>].data = UncommentedRows(BodyOf(written), 1, FALSE)

-----------------------------------------------------------------------------
(* C23: comment delimiters inside strings *)

\* the row a body line with '/*' or '*/' inside its string holds
StringRowOf(line) ==
    IF line = BlockOpenInString THEN <<IntV(5), StrV(<<"a", "/", "*", "b">>)>>
    ELSE IF line = BlockCloseInString THEN <<IntV(5), StrV(<<"a", "*", "/", "b">>)>>
    ELSE RowOf(line)

\* C23: a '/*' or a '*/' inside a double-quoted string is part of the string:
\* each line of the body is read as a row, and the string keeps the characters
DelimitersInStringsKept ==
    (/\ result.status # "none"
     /\ SectionUnder(written, DocSchema)
     /\ \A i \in 1..Len(BodyOf(written)) :
           BodyOf(written)[i] \in {Row5, Row7, BlockOpenInString, BlockCloseInString})
    => /\ result.status = "returned"
       /\ result.value[<<"A">>].data
             = [i \in 1..Len(BodyOf(written)) |-> StringRowOf(BodyOf(written)[i])]

-----------------------------------------------------------------------------
(* C24: line comments *)

\* the body lines with '//'
LineCommentLines ==
    {Row5, Row7, LineCommentBeforeValue, LineCommentAfterRow, LineCommentForValue,
     LineCommentInString, LineCommentLine}

\* the lines that hold one value before their '//'
CutShort == {LineCommentBeforeValue, LineCommentForValue}

\* the rows of the lines of the body, the text from '//' outside a string on
\* left out
RECURSIVE RowsBeforeComments(_, _)
RowsBeforeComments(body, i) ==
    IF i > Len(body) THEN <<>>
    ELSE (IF body[i] = LineCommentLine THEN <<>>
          ELSE IF body[i] = LineCommentAfterRow THEN <<RowFiveA>>
          ELSE IF body[i] = LineCommentInString
               THEN <<<<IntV(5), StrV(<<"a", "/", "/", "b">>)>>>>
          ELSE <<RowOf(body[i])>>)
         \o RowsBeforeComments(body, i + 1)

\* C24: no token from an unquoted '//' on is read as a value: a line with one
\* value before its '//' fails for want of tokens, and the other lines give the
\* rows of their text before the '//'
LineCommentsDiscarded ==
    (/\ result.status # "none"
     /\ SectionUnder(written, DocSchema)
     /\ \A i \in 1..Len(BodyOf(written)) : BodyOf(written)[i] \in LineCommentLines)
    => IF \E i \in 1..Len(BodyOf(written)) : BodyOf(written)[i] \in CutShort
       THEN /\ result.status = "raised"
            /\ result.exc.msg = <<"Unexpected dimension in field", <<"n">>, 1, 0>>
       ELSE /\ result.status = "returned"
            /\ result.value[<<"A">>].data = RowsBeforeComments(BodyOf(written), 1)

-----------------------------------------------------------------------------
(* C25: schema block lines are not data *)

\* the file is the section A with the schema block, the separator and Row5
SchemaFileOf(block) == <<BlockName(<<"A">>, -1)>> \o block \o <<DocSeparator, Row5>>

\* C25: the lines of a schema block are used for the schema alone, on however
\* many lines the block stands: the section has the fields x and n and the one
\* row of its data line
SchemaLinesNotData ==
    (/\ result.status # "none"
     /\ \E block \in {<<DocSchema>>, SchemaOnTwoLines, SchemaOnThreeLines} :
           written = SchemaFileOf(block))
    => /\ result.status = "returned"
       /\ [i \in 1..Len(result.value[<<"A">>].fields) |->
              result.value[<<"A">>].fields[i].name] = << <<"x">>, <<"n">> >>
       /\ result.value[<<"A">>].data = <<RowOf(Row5)>>

-----------------------------------------------------------------------------
(* C26: schema extraction *)

\* the schema lines with an entry that lacks ':' or type characters
BadEntries ==
    {SchemaNoColonFirst, SchemaNoTypesFirst, SchemaNoColonLast, SchemaNoTypesLast}

\* C26: a schema line with an entry that lacks ':' or type characters, in any
\* position, makes the parse fail, and a schema line of well-formed entries
\* gives one field per entry in the order of the line
SchemaEntriesKept ==
    (result.status # "none" /\ Len(written) = 4 /\ written[1] = BlockName(<<"A">>, -1))
    => /\ written[2] \in BadEntries => result.status = "raised"
       /\ (written[2] \in {DocSchema, SchemaCommas} /\ written[4] = Row5)
          => /\ result.status = "returned"
             /\ [i \in 1..Len(result.value[<<"A">>].fields) |->
                    <<result.value[<<"A">>].fields[i].name,
                      result.value[<<"A">>].fields[i].type_chars>>]
                   = << <<<<"x">>, <<"d">>>>, <<<<"n">>, <<"s">>>> >>

-----------------------------------------------------------------------------
(* C27: token shortage *)

\* the number of tokens of a body line
TokensOf(line) == Len(ExpectedTokens(Strip(line)))

\* the lines of the body with fewer tokens than the fields v:dd and n:s take
ShortLines(body) == {i \in 1..Len(body) : TokensOf(body[i]) < 3}

\* the error for a line of the given number of tokens under v:dd n:s
ShortageError(tokens) ==
    IF tokens < 2
    THEN Raise("ValueError", <<"Unexpected dimension in field", <<"v">>, 2, tokens>>)
    ELSE Raise("ValueError", <<"Unexpected dimension in field", <<"n">>, 1, tokens - 2>>)

\* C27: under the fields v:dd and n:s each row takes two tokens for v and one
\* for n; the first line with fewer tokens makes the parse fail with the name
\* of the field that found too few, its number of components and the number of
\* tokens left, and nothing is returned; without such a line every line gives
\* a row
TokenShortage ==
    (result.status # "none" /\ SectionUnder(written, WideSchema))
    => IF ShortLines(BodyOf(written)) = {}
       THEN /\ result.status = "returned"
            /\ result.value[<<"A">>].data
                  = [i \in 1..Len(BodyOf(written)) |->
                        << <<IntV(5), IntV(6)>>, StrV(<<"a">>) >>]
       ELSE /\ result.status = "raised"
            /\ result.exc
                  = ShortageError(TokensOf(BodyOf(written)[Min(ShortLines(BodyOf(written)))]))

\* a row of three tokens was read and the line after it, of two tokens, was
\* refused at the field n
ShortAfterComplete ==
    /\ SectionUnder(written, WideSchema)
    /\ Len(written) = 5
    /\ TokensOf(written[4]) = 3
    /\ TokensOf(written[5]) = 2
    /\ result.status = "raised"
    /\ result.exc.msg = <<"Unexpected dimension in field", <<"n">>, 1, 0>>

-----------------------------------------------------------------------------
(* C28: malformed headers *)

\* C28: a file with a header line that has no ']', no count after its ':' or a
\* count that is not a number is refused
MalformedHeaderRaised ==
    (/\ result.status # "none"
     /\ \E i \in 1..Len(written) : written[i] \in {HeaderOpen, HeaderNoCount, HeaderBadCount})
    => result.status = "raised"

-----------------------------------------------------------------------------
(* C29: each section is flushed once *)

\* the section of the last add_header has been written: add_end_line has
\* brought current_line to line_count or past it
SectionFlushed == block_name # <<>> /\ current_line >= 1 /\ current_line >= line_count

\* C29: once the section of the last add_header has been written, add_end_line
\* writes nothing more until the next add_header, for a section of count 0 too
FlushedOnce ==
    [][(Running /\ SectionFlushed /\ ret'.op = "add_end_line") => written' = written]_vars

-----------------------------------------------------------------------------
(* C30: a failing add_field changes nothing *)

\* C30: when add_field raises, the fields with their widths and negative
\* flags, the entries, the text of the values and the field cursor are as they
\* were before the call
FailedFieldChangesNothing ==
    [][(Running /\ ret'.op = "add_field" /\ ret'.exc # NoExc)
       => UNCHANGED <<fields, num_fields, type_entries, block_data, current_field>>]_vars

====
